---- MODULE Spec2Model ----
(***************************************************************************)
(* Smart-Diet-Planner: users, foods, food logs and daily summaries, with   *)
(* the request handlers that change them.                                  *)
(*                                                                         *)
(* Numbers.  The program stores floats rounded to one decimal.  Nutrient   *)
(* amounts, totals and goals are modelled as integers counting tenths      *)
(* (195.0 kcal is 1950); quantities are whole grams; weight, height and    *)
(* age are whole numbers.  round(x, n) is Python's round-half-even; the    *)
(* input sets below avoid products whose binary float value falls on the   *)
(* other side of a decimal tie.                                            *)
(*                                                                         *)
(* Specifications.  Spec (diary), SpecFoods (food catalogue) and SpecGoals *)
(* (profile and goals) run each handler to completion, one request at a    *)
(* time.  SpecRace runs two requests at once, one step per database        *)
(* statement or commit; SpecSerialized is SpecRace with the log query and  *)
(* the summary write of update_from_logs as a single step.                 *)
(* SpecSummary calls get_or_create and update_from_logs directly,          *)
(* SpecCatalogue runs recommendations and search over a catalogue of       *)
(* eight foods, SpecProgress applies the derived values to stored summary  *)
(* rows, SpecWeekly runs the weekly chart query and SpecBoundary submits   *)
(* invalid forms to log_meal and edit_meal_log.                            *)
(* SpecRanking orders recommendations over ten foods, SpecServing derives  *)
(* serving units from food names, SpecNutrition and SpecBmr apply          *)
(* calculate_nutrition and calculate_bmr, SpecDelete runs log_meal against *)
(* admin_delete_food step by step, and SpecOwners has two users name each  *)
(* other's logs.                                                           *)
(***************************************************************************)
EXTENDS Integers, FiniteSets, Sequences, TLC

VARIABLES users, foods, food_logs, daily_summaries, response, goals_custom, reqs

vars == <<users, foods, food_logs, daily_summaries, response, goals_custom, reqs>>

\* Python None / SQL NULL in a numeric column.
None == -1

----------------------------------------------------------------------------
(* Bounds and input sets *)

\* Largest food_logs.id the model lets a request allocate.
MaxLogs == 2

UserIds == {1, 2, 3}
FoodIds == {1, 2}
Dates == {1, 2}

\* The fields of a log form: food_id (0 is a missing field, 9 an id with no
\* Food row), quantity_grams (0 is a missing or non-positive value) and
\* meal_type ("" is the empty field).  One form per validation failure, and
\* every valid combination of food and quantity.
Quantities == {40, 120}
LogForms ==
    [food_id : FoodIds, quantity_grams : Quantities, meal_type : {"Breakfast"}]
    \cup {[food_id |-> 0, quantity_grams |-> 40, meal_type |-> "Breakfast"],
          [food_id |-> 1, quantity_grams |-> 0, meal_type |-> "Breakfast"],
          [food_id |-> 1, quantity_grams |-> 40, meal_type |-> ""],
          [food_id |-> 9, quantity_grams |-> 40, meal_type |-> "Breakfast"]}
EditForms ==
    [quantity_grams : Quantities, meal_type : {"Breakfast"}]
    \cup {[quantity_grams |-> 0, meal_type |-> "Breakfast"],
          [quantity_grams |-> 40, meal_type |-> ""]}

----------------------------------------------------------------------------
(* Arithmetic *)

Max(S) == CHOOSE x \in S : \A y \in S : y <= x

\* round(n / d) to the nearest integer, ties to the even one (d > 0).
Round(n, d) ==
    LET q == n \div d
        r == n % d
    IN  IF 2 * r < d THEN q
        ELSE IF 2 * r > d THEN q + 1
        ELSE IF q % 2 = 0 THEN q ELSE q + 1

\* Python truthiness of a number that may be None: None and 0 are falsy.
Truthy(x) == x # None /\ x # 0

\* str.lower() on the meal types and genders that occur.
Lower(s) ==
    CASE s = "Breakfast" -> "breakfast"
      [] s = "LUNCH" -> "lunch"
      [] s = "Evening Snack" -> "evening snack"
      [] s = "Brunch" -> "brunch"
      [] s = "Male" -> "male"
      [] s = "MALE" -> "male"
      [] s = "Female" -> "female"
      [] s = "Other" -> "other"
      [] OTHER -> s

RECURSIVE SumOver(_, _, _)
\* sum(log.<field> for log in logs) over the rows ids of table t.
SumOver(t, ids, field) ==
    IF ids = {} THEN 0
    ELSE LET i == CHOOSE x \in ids : TRUE
         IN  t[i][field] + SumOver(t, ids \ {i}, field)

----------------------------------------------------------------------------
(* models/food.py *)

\* calculate_nutrition returning the per-100g values times the quantity
\* without rounding the result to one decimal (tenths, truncated).
calculate_nutrition_unrounded(food, quantity_grams) ==
    [calories |-> (food.calories_per_100g * quantity_grams) \div 100,
     protein  |-> (food.protein_per_100g * quantity_grams) \div 100,
     carbs    |-> (food.carbs_per_100g * quantity_grams) \div 100,
     fat      |-> (food.fat_per_100g * quantity_grams) \div 100,
     fiber    |-> (food.fiber_per_100g * quantity_grams) \div 100]

\* Food.calculate_nutrition: each field is round(per_100g * quantity / 100, 1).
calculate_nutrition(food, quantity_grams) ==
    [calories |-> Round(food.calories_per_100g * quantity_grams, 100),
     protein  |-> Round(food.protein_per_100g * quantity_grams, 100),
     carbs    |-> Round(food.carbs_per_100g * quantity_grams, 100),
     fat      |-> Round(food.fat_per_100g * quantity_grams, 100),
     fiber    |-> Round(food.fiber_per_100g * quantity_grams, 100)]

----------------------------------------------------------------------------
(* models/food_log.py: FoodLog *)

\* The id SQLite gives the next row of a table: max(rowid) + 1.
NextId(table) == IF DOMAIN table = {} THEN 1 ELSE Max(DOMAIN table) + 1

\* The FoodLog row create_from_food builds from a Food row that exists.
create_from_food(food, user_id, food_id, quantity_grams, meal_type, log_date) ==
    LET nutrition == calculate_nutrition(food, quantity_grams)
    IN  [user_id           |-> user_id,
         food_id           |-> food_id,
         quantity_grams    |-> quantity_grams,
         meal_type         |-> meal_type,
         calories_consumed |-> nutrition.calories,
         protein_consumed  |-> nutrition.protein,
         carbs_consumed    |-> nutrition.carbs,
         fat_consumed      |-> nutrition.fat,
         date_logged       |-> log_date]

\* db.session.add(log); commit: the table with the row under a fresh id.
InsertRow(table, row) ==
    [i \in DOMAIN table \cup {NextId(table)} |->
        IF i \in DOMAIN table THEN table[i] ELSE row]

\* db.session.delete(row); commit.
DeleteRow(table, id) == [i \in DOMAIN table \ {id} |-> table[i]]

\* FoodLog.query.filter_by(user_id=, date_logged=): the ids of the matching rows.
LogsOf(logs, user_id, log_date) ==
    {i \in DOMAIN logs : logs[i].user_id = user_id /\ logs[i].date_logged = log_date}

----------------------------------------------------------------------------
(* models/food_log.py: DailySummary *)

\* A daily_summaries row is identified by <<user_id, date, k>>: the k-th row
\* inserted for that user and date (the order of the primary keys among the
\* rows of one user and date).
\* DailySummary.query.filter_by(user_id=, date=): the ids of the matching rows.
SummariesOf(summaries, user_id, summary_date) ==
    {i \in DOMAIN summaries :
        summaries[i].user_id = user_id /\ summaries[i].date = summary_date}

\* .first() of that query: the matching row of lowest primary key.
FirstSummary(summaries, user_id, summary_date) ==
    CHOOSE i \in SummariesOf(summaries, user_id, summary_date) :
        \A j \in SummariesOf(summaries, user_id, summary_date) : i[3] <= j[3]

\* db.session.add(summary); commit.
InsertSummary(summaries, row) ==
    LET id == <<row.user_id, row.date,
                Cardinality(SummariesOf(summaries, row.user_id, row.date)) + 1>>
    IN  [i \in DOMAIN summaries \cup {id} |->
            IF i \in DOMAIN summaries THEN summaries[i] ELSE row]

\* The row get_or_create would build without the defaults: a goal the user has
\* not set stays unset.
NewSummary_undefaulted(user, user_id, summary_date) ==
    [user_id |-> user_id, date |-> summary_date, total_calories |-> 0,
     total_protein |-> 0, total_carbs |-> 0, total_fat |-> 0,
     calorie_goal |-> user.daily_calorie_goal, protein_goal |-> user.protein_goal,
     carb_goal |-> user.carb_goal, fat_goal |-> user.fat_goal, meals_logged |-> 0]

\* The row get_or_create builds: zero totals, goals copied from the user with
\* 2000 / 50 / 200 / 65 where the user has none.
NewSummary(user, user_id, summary_date) ==
    [user_id        |-> user_id,
     date           |-> summary_date,
     total_calories |-> 0,
     total_protein  |-> 0,
     total_carbs    |-> 0,
     total_fat      |-> 0,
     calorie_goal   |-> IF Truthy(user.daily_calorie_goal)
                        THEN user.daily_calorie_goal ELSE 20000,
     protein_goal   |-> IF Truthy(user.protein_goal) THEN user.protein_goal ELSE 500,
     carb_goal      |-> IF Truthy(user.carb_goal) THEN user.carb_goal ELSE 2000,
     fat_goal       |-> IF Truthy(user.fat_goal) THEN user.fat_goal ELSE 650,
     meals_logged   |-> 0]

\* The table without the unique constraint: every row may be inserted.
UniqueOk_unconstrained(summaries, row) == TRUE

\* UniqueConstraint('user_id', 'date'): may this row be inserted?
UniqueOk(summaries, row) == SummariesOf(summaries, row.user_id, row.date) = {}

\* get_or_create raises ValueError("User not found").
get_or_create_raises(summaries, us, user_id, summary_date) ==
    /\ SummariesOf(summaries, user_id, summary_date) = {}
    /\ user_id \notin DOMAIN us

\* get_or_create creating a summary with the default goals for a user id that
\* has no row.
get_or_create_defaulted(summaries, us, user_id, summary_date) ==
    IF SummariesOf(summaries, user_id, summary_date) # {} THEN summaries
    ELSE InsertSummary(summaries,
             NewSummary(IF user_id \in DOMAIN us THEN us[user_id]
                        ELSE [daily_calorie_goal |-> None, protein_goal |-> None,
                              carb_goal |-> None, fat_goal |-> None],
                        user_id, summary_date))

\* DailySummary.get_or_create run without interruption: the table afterwards.
get_or_create(summaries, us, user_id, summary_date) ==
    IF SummariesOf(summaries, user_id, summary_date) # {} THEN summaries
    ELSE IF user_id \notin DOMAIN us THEN summaries
    ELSE InsertSummary(summaries, NewSummary(us[user_id], user_id, summary_date))

\* The sums update_from_logs computes from the logs it read.
LogTotals(logs, ids) ==
    [total_calories |-> SumOver(logs, ids, "calories_consumed"),
     total_protein  |-> SumOver(logs, ids, "protein_consumed"),
     total_carbs    |-> SumOver(logs, ids, "carbs_consumed"),
     total_fat      |-> SumOver(logs, ids, "fat_consumed"),
     meals_logged   |-> Cardinality(ids)]

\* update_from_logs patching the totals incrementally instead of replacing them.
AssignTotals_incremental(row, totals) ==
    [row EXCEPT !.total_calories = @ + totals.total_calories,
                !.total_protein  = @ + totals.total_protein,
                !.total_carbs    = @ + totals.total_carbs,
                !.total_fat      = @ + totals.total_fat,
                !.meals_logged   = @ + totals.meals_logged]

\* The assignments of update_from_logs to the summary row: a full replace.
AssignTotals(row, totals) ==
    [row EXCEPT !.total_calories = totals.total_calories,
                !.total_protein  = totals.total_protein,
                !.total_carbs    = totals.total_carbs,
                !.total_fat      = totals.total_fat,
                !.meals_logged   = totals.meals_logged]

\* DailySummary.update_from_logs run without interruption: the table afterwards.
update_from_logs(summaries, logs, us, user_id, summary_date) ==
    IF get_or_create_raises(summaries, us, user_id, summary_date) THEN summaries
    ELSE LET created == get_or_create(summaries, us, user_id, summary_date)
             id      == FirstSummary(created, user_id, summary_date)
             totals  == LogTotals(logs, LogsOf(logs, user_id, summary_date))
         IN  [created EXCEPT ![id] = AssignTotals(@, totals)]

----------------------------------------------------------------------------
(* models/user.py *)

\* activity_multipliers.get(activity_level, 1.2), in thousandths.
ActivityMultiplier(activity_level) ==
    CASE activity_level = "Sedentary"         -> 1200
      [] activity_level = "Lightly Active"    -> 1375
      [] activity_level = "Moderately Active" -> 1550
      [] activity_level = "Very Active"       -> 1725
      [] activity_level = "Extremely Active"  -> 1900
      [] OTHER                                -> 1200

\* calculate_bmr comparing the gender as stored, without lower().
calculate_bmr_case_sensitive(user) ==
    IF user.gender = "male"
    THEN 1000 * user.weight + 625 * user.height - 500 * user.age + 500
    ELSE 1000 * user.weight + 625 * user.height - 500 * user.age - 16100

\* User.calculate_bmr (Mifflin-St Jeor), in hundredths of a kcal.
calculate_bmr(user) ==
    IF Lower(user.gender) = "male"
    THEN 1000 * user.weight + 625 * user.height - 500 * user.age + 500
    ELSE 1000 * user.weight + 625 * user.height - 500 * user.age - 16100

\* User.calculate_tdee, in 1/100000 kcal (hundredths times thousandths).
calculate_tdee(user) == calculate_bmr(user) * ActivityMultiplier(user.activity_level)

\* The macro targets of a calorie base num/den kcal, in tenths of a gram:
\* protein 25% at 4 kcal/g, carbs 45% at 4 kcal/g, fat 30% at 9 kcal/g.
MacroTargets(num, den) ==
    [protein |-> Round(num * 25 * 10, den * 100 * 4),
     carbs   |-> Round(num * 45 * 10, den * 100 * 4),
     fat     |-> Round(num * 30 * 10, den * 100 * 9)]

\* User.calculate_macro_goals(): the base is daily_calorie_goal or the TDEE.
calculate_macro_goals(user) ==
    IF Truthy(user.daily_calorie_goal)
    THEN MacroTargets(user.daily_calorie_goal, 10)
    ELSE MacroTargets(calculate_tdee(user), 100000)

\* update_goals storing the calorie goal and leaving the macro goals as they were.
update_goals_calories_only(user) ==
    [user EXCEPT !.daily_calorie_goal = 10 * Round(calculate_tdee(user), 100000)]

\* User.update_goals: the user with calorie and macro goals recomputed.
update_goals(user) ==
    LET withCalories ==
            [user EXCEPT !.daily_calorie_goal =
                             10 * Round(calculate_tdee(user), 100000)]
        macro_goals == calculate_macro_goals(withCalories)
    IN  [withCalories EXCEPT !.protein_goal = macro_goals.protein,
                             !.carb_goal    = macro_goals.carbs,
                             !.fat_goal     = macro_goals.fat]

\* User(...) as the constructor leaves it: the goal columns are NULL.
NewUser(profile, is_admin) ==
    [age                |-> profile.age,
     gender             |-> profile.gender,
     height             |-> profile.height,
     weight             |-> profile.weight,
     activity_level     |-> profile.activity_level,
     is_admin           |-> is_admin,
     daily_calorie_goal |-> None,
     protein_goal       |-> None,
     carb_goal          |-> None,
     fat_goal           |-> None]

\* The five fields TDEE is computed from.
ProfileOf(user) ==
    [age |-> user.age, gender |-> user.gender, height |-> user.height,
     weight |-> user.weight, activity_level |-> user.activity_level]

----------------------------------------------------------------------------
(* Form inputs and the seeded database *)

\* The admin account of init_db.py.
AdminProfile ==
    [age |-> 30, gender |-> "Other", height |-> 170, weight |-> 70,
     activity_level |-> "Moderately Active"]

\* Profile forms as submitted to register and edit_profile.  The last one has
\* age 12 and fails validation; "Unknown" is an activity level outside the table.
ProfileForms ==
    {[age |-> 30, gender |-> "Male", height |-> 170, weight |-> 70,
      activity_level |-> "Sedentary"],
     [age |-> 25, gender |-> "Female", height |-> 160, weight |-> 60,
      activity_level |-> "Very Active"],
     [age |-> 45, gender |-> "Female", height |-> 165, weight |-> 55,
      activity_level |-> "Unknown"],
     [age |-> 12, gender |-> "Male", height |-> 170, weight |-> 70,
      activity_level |-> "Sedentary"]}

\* The per-100g values (in tenths) of the first two seeded foods, Basmati Rice
\* and Brown Rice.
SeedFoods ==
    (1 :> [calories_per_100g |-> 1300, protein_per_100g |-> 27,
           carbs_per_100g |-> 282, fat_per_100g |-> 3, fiber_per_100g |-> 4]) @@
    (2 :> [calories_per_100g |-> 1120, protein_per_100g |-> 23,
           carbs_per_100g |-> 229, fat_per_100g |-> 9, fiber_per_100g |-> 18])

\* The admin's edit forms; the second has no calories value and fails validation.
FoodForms ==
    {[calories_per_100g |-> 1200, protein_per_100g |-> 31,
      carbs_per_100g |-> 250, fat_per_100g |-> 7, fiber_per_100g |-> 5],
     [calories_per_100g |-> None, protein_per_100g |-> 31,
      carbs_per_100g |-> 250, fat_per_100g |-> 7, fiber_per_100g |-> 5]}

\* The response of the last request: which handler ran and how it ended.
Response(op, status) == [op |-> op, status |-> status]

NoRows == [i \in {} |-> 0]

\* Requests the server handles at the same time, each in a thread and a database
\* session of its own.
Reqs == {1, 2}

\* No FoodLog object is held.
NoLog ==
    [user_id |-> 0, food_id |-> 0, quantity_grams |-> 0, meal_type |-> "",
     calories_consumed |-> 0, protein_consumed |-> 0, carbs_consumed |-> 0,
     fat_consumed |-> 0, date_logged |-> 0]

\* The sums over no logs.
ZeroTotals == LogTotals(NoRows, {})

\* A request slot with no request in it.  The fields are the locals and the
\* session of the handler: kind and pc say which handler runs and where it is;
\* old is the FoodLog as loaded and row the FoodLog as the handler has set it;
\* seen is the k of the summary row held (0: none), expired says that its
\* attributes were expired by a commit, loaded holds the totals it was loaded
\* with and totals the sums computed from the logs read.  raced, log_written,
\* last and error record what happened: the request committed its log change
\* while another request was inside get_or_create or update_from_logs, its log
\* change was committed, it was the last to write the summary, and the
\* exception that ended it.
Idle ==
    [kind |-> "idle", pc |-> "idle", user_id |-> 0, date |-> 0, log_id |-> 0,
     old |-> NoLog, row |-> NoLog, seen |-> 0, expired |-> FALSE,
     loaded |-> ZeroTotals, totals |-> ZeroTotals, raced |-> FALSE,
     log_written |-> FALSE, last |-> FALSE, error |-> ""]

\* After init_db.py, the food seed and one registration.
Init ==
    /\ users = (1 :> update_goals(NewUser(AdminProfile, TRUE))) @@
               (2 :> update_goals(NewUser(
                        [age |-> 30, gender |-> "Male", height |-> 170,
                         weight |-> 70, activity_level |-> "Sedentary"], FALSE)))
    /\ foods = SeedFoods
    /\ food_logs = NoRows
    /\ daily_summaries = NoRows
    /\ response = Response("init", "success")
    /\ goals_custom = {}
    /\ reqs = [r \in Reqs |-> Idle]

----------------------------------------------------------------------------
(* Request handlers, each run from start to end without interruption *)

\* log_meal without the test of the quantity.
log_meal_quantity_unchecked(u, food_id, quantity_grams, meal_type, log_date) ==
    /\ u \in DOMAIN users
    /\ IF ~Truthy(food_id) \/ meal_type = "" \/ food_id \notin DOMAIN foods
       THEN /\ response' = Response("log_meal", "error")
            /\ UNCHANGED <<food_logs, daily_summaries>>
       ELSE /\ NextId(food_logs) <= MaxLogs
            /\ food_logs' = InsertRow(food_logs,
                   create_from_food(foods[food_id], u, food_id, quantity_grams,
                                    meal_type, log_date))
            /\ daily_summaries' =
                   update_from_logs(daily_summaries, food_logs', users, u, log_date)
            /\ response' = Response("log_meal", "success")
    /\ UNCHANGED <<users, foods, goals_custom, reqs>>

\* routes/api.py log_meal: validation, create_from_food, commit, update_from_logs.
log_meal(u, food_id, quantity_grams, meal_type, log_date) ==
    /\ u \in DOMAIN users
    /\ IF ~Truthy(food_id) \/ ~Truthy(quantity_grams) \/ quantity_grams <= 0
          \/ meal_type = "" \/ food_id \notin DOMAIN foods
       THEN /\ response' = Response("log_meal", "error")
            /\ UNCHANGED <<food_logs, daily_summaries>>
       ELSE /\ NextId(food_logs) <= MaxLogs
            /\ food_logs' = InsertRow(food_logs,
                   create_from_food(foods[food_id], u, food_id, quantity_grams,
                                    meal_type, log_date))
            /\ daily_summaries' =
                   update_from_logs(daily_summaries, food_logs', users, u, log_date)
            /\ response' = Response("log_meal", "success")
    /\ UNCHANGED <<users, foods, goals_custom, reqs>>

\* edit_meal_log storing the new quantity without re-deriving the nutrients.
EditedLog_stale(log, food, quantity_grams, meal_type) ==
    [log EXCEPT !.quantity_grams = quantity_grams, !.meal_type = meal_type]

\* The attribute assignments of edit_meal_log to the loaded log.
EditedLog(log, food, quantity_grams, meal_type) ==
    LET nutrition == calculate_nutrition(food, quantity_grams)
    IN  [log EXCEPT !.quantity_grams    = quantity_grams,
                    !.meal_type         = meal_type,
                    !.calories_consumed = nutrition.calories,
                    !.protein_consumed  = nutrition.protein,
                    !.carbs_consumed    = nutrition.carbs,
                    !.fat_consumed      = nutrition.fat]

\* edit_meal_log loading the log by its id alone, whoever owns it.
edit_meal_log_any_owner(u, log_id, quantity_grams, meal_type) ==
    /\ u \in DOMAIN users
    /\ IF log_id \notin DOMAIN food_logs
       THEN /\ response' = Response("edit_meal_log", "not_found")
            /\ UNCHANGED <<food_logs, daily_summaries>>
       ELSE IF ~Truthy(quantity_grams) \/ quantity_grams <= 0 \/ meal_type = ""
               \/ food_logs[log_id].food_id \notin DOMAIN foods
       THEN /\ response' = Response("edit_meal_log", "error")
            /\ UNCHANGED <<food_logs, daily_summaries>>
       ELSE /\ food_logs' =
                   [food_logs EXCEPT ![log_id] =
                       EditedLog(@, foods[@.food_id], quantity_grams, meal_type)]
            /\ daily_summaries' =
                   update_from_logs(daily_summaries, food_logs', users, u,
                                    food_logs[log_id].date_logged)
            /\ response' = Response("edit_meal_log", "success")
    /\ UNCHANGED <<users, foods, goals_custom, reqs>>

\* routes/dashboard.py edit_meal_log (POST).
edit_meal_log(u, log_id, quantity_grams, meal_type) ==
    /\ u \in DOMAIN users
    /\ IF log_id \notin DOMAIN food_logs \/ food_logs[log_id].user_id # u
       THEN /\ response' = Response("edit_meal_log", "not_found")
            /\ UNCHANGED <<food_logs, daily_summaries>>
       ELSE IF ~Truthy(quantity_grams) \/ quantity_grams <= 0 \/ meal_type = ""
               \/ food_logs[log_id].food_id \notin DOMAIN foods
       THEN /\ response' = Response("edit_meal_log", "error")
            /\ UNCHANGED <<food_logs, daily_summaries>>
       ELSE /\ food_logs' =
                   [food_logs EXCEPT ![log_id] =
                       EditedLog(@, foods[@.food_id], quantity_grams, meal_type)]
            /\ daily_summaries' =
                   update_from_logs(daily_summaries, food_logs', users, u,
                                    food_logs[log_id].date_logged)
            /\ response' = Response("edit_meal_log", "success")
    /\ UNCHANGED <<users, foods, goals_custom, reqs>>

\* delete_meal_log removing the summary of the date with its last log.
delete_meal_log_summary_dropped(u, log_id) ==
    /\ u \in DOMAIN users
    /\ IF log_id \notin DOMAIN food_logs \/ food_logs[log_id].user_id # u
       THEN /\ response' = Response("delete_meal_log", "not_found")
            /\ UNCHANGED <<food_logs, daily_summaries>>
       ELSE LET log_date == food_logs[log_id].date_logged
                updated  == update_from_logs(daily_summaries, food_logs', users,
                                             u, log_date)
            IN  /\ food_logs' = DeleteRow(food_logs, log_id)
                /\ daily_summaries' =
                       IF LogsOf(food_logs', u, log_date) # {} THEN updated
                       ELSE [i \in DOMAIN updated
                                     \ SummariesOf(updated, u, log_date) |->
                                updated[i]]
                /\ response' = Response("delete_meal_log", "success")
    /\ UNCHANGED <<users, foods, goals_custom, reqs>>

\* routes/dashboard.py delete_meal_log.
delete_meal_log(u, log_id) ==
    /\ u \in DOMAIN users
    /\ IF log_id \notin DOMAIN food_logs \/ food_logs[log_id].user_id # u
       THEN /\ response' = Response("delete_meal_log", "not_found")
            /\ UNCHANGED <<food_logs, daily_summaries>>
       ELSE /\ food_logs' = DeleteRow(food_logs, log_id)
            /\ daily_summaries' =
                   update_from_logs(daily_summaries, food_logs', users, u,
                                    food_logs[log_id].date_logged)
            /\ response' = Response("delete_meal_log", "success")
    /\ UNCHANGED <<users, foods, goals_custom, reqs>>

\* routes/api.py dashboard_data: creates the summary of the date when absent.
dashboard_data(u, summary_date) ==
    /\ u \in DOMAIN users
    /\ daily_summaries' = get_or_create(daily_summaries, users, u, summary_date)
    /\ response' = Response("dashboard_data", "success")
    /\ UNCHANGED <<users, foods, food_logs, goals_custom, reqs>>

\* FoodLog.query.filter_by(food_id=food_id).count()
log_count(logs, food_id) == Cardinality({i \in DOMAIN logs : logs[i].food_id = food_id})

\* admin_delete_food without the check for referencing logs.
admin_delete_food_unchecked(u, food_id) ==
    /\ u \in DOMAIN users
    /\ IF ~users[u].is_admin
       THEN /\ response' = Response("admin_delete_food", "unauthorized")
            /\ UNCHANGED foods
       ELSE IF food_id \notin DOMAIN foods
       THEN /\ response' = Response("admin_delete_food", "error")
            /\ UNCHANGED foods
       ELSE /\ foods' = [i \in DOMAIN foods \ {food_id} |-> foods[i]]
            /\ response' = Response("admin_delete_food", "success")
    /\ UNCHANGED <<users, food_logs, daily_summaries, goals_custom, reqs>>

\* routes/api.py admin_delete_food.
admin_delete_food(u, food_id) ==
    /\ u \in DOMAIN users
    /\ IF ~users[u].is_admin
       THEN /\ response' = Response("admin_delete_food", "unauthorized")
            /\ UNCHANGED foods
       ELSE IF food_id \notin DOMAIN foods \/ log_count(food_logs, food_id) > 0
       THEN /\ response' = Response("admin_delete_food", "error")
            /\ UNCHANGED foods
       ELSE /\ foods' = DeleteRow(foods, food_id)
            /\ response' = Response("admin_delete_food", "success")
    /\ UNCHANGED <<users, food_logs, daily_summaries, goals_custom, reqs>>

\* edit_food re-deriving the consumed fields of the logs of the food.
edit_food_logs_rederived(u, food_id, form) ==
    /\ u \in DOMAIN users
    /\ IF ~users[u].is_admin
       THEN /\ response' = Response("edit_food", "unauthorized")
            /\ UNCHANGED <<foods, food_logs>>
       ELSE IF food_id \notin DOMAIN foods
       THEN /\ response' = Response("edit_food", "not_found")
            /\ UNCHANGED <<foods, food_logs>>
       ELSE IF \E c \in {"calories_per_100g", "protein_per_100g",
                          "carbs_per_100g", "fat_per_100g"} :
                   form[c] = None \/ form[c] < 0
       THEN /\ response' = Response("edit_food", "error")
            /\ UNCHANGED <<foods, food_logs>>
       ELSE /\ foods' = [foods EXCEPT ![food_id] =
                            [form EXCEPT !.fiber_per_100g =
                                             IF Truthy(@) THEN @ ELSE 0]]
            /\ food_logs' = [l \in DOMAIN food_logs |->
                   IF food_logs[l].food_id # food_id THEN food_logs[l]
                   ELSE EditedLog(food_logs[l], foods'[food_id],
                                  food_logs[l].quantity_grams,
                                  food_logs[l].meal_type)]
            /\ response' = Response("edit_food", "success")
    /\ UNCHANGED <<users, daily_summaries, goals_custom, reqs>>

\* routes/admin.py edit_food (POST): validation, then the per-100g columns are set.
edit_food(u, food_id, form) ==
    /\ u \in DOMAIN users
    /\ IF ~users[u].is_admin
       THEN /\ response' = Response("edit_food", "unauthorized")
            /\ UNCHANGED foods
       ELSE IF food_id \notin DOMAIN foods
       THEN /\ response' = Response("edit_food", "not_found")
            /\ UNCHANGED foods
       ELSE IF \E c \in {"calories_per_100g", "protein_per_100g",
                          "carbs_per_100g", "fat_per_100g"} :
                   form[c] = None \/ form[c] < 0
       THEN /\ response' = Response("edit_food", "error")
            /\ UNCHANGED foods
       ELSE /\ foods' = [foods EXCEPT ![food_id] =
                            [form EXCEPT !.fiber_per_100g =
                                             IF Truthy(@) THEN @ ELSE 0]]
            /\ response' = Response("edit_food", "success")
    /\ UNCHANGED <<users, food_logs, daily_summaries, goals_custom, reqs>>

----------------------------------------------------------------------------
(* The diary: every user logs, edits and deletes meals on every date *)

LogMeal ==
    \E u \in DOMAIN users, form \in LogForms, d \in Dates :
        log_meal(u, form.food_id, form.quantity_grams, form.meal_type, d)

EditMealLog ==
    \E u \in DOMAIN users, l \in 1..MaxLogs, form \in EditForms :
        edit_meal_log(u, l, form.quantity_grams, form.meal_type)

DeleteMealLog == \E u \in DOMAIN users, l \in 1..MaxLogs : delete_meal_log(u, l)

DashboardData == \E u \in DOMAIN users, d \in Dates : dashboard_data(u, d)

Next ==
    \/ LogMeal
    \/ EditMealLog
    \/ DeleteMealLog
    \/ DashboardData

Spec == Init /\ [][Next]_vars

----------------------------------------------------------------------------
(* The food catalogue: the admin (user 1) edits and deletes foods while    *)
(* user 2 keeps a diary for one date                                       *)

FoodsLogMeal ==
    \E form \in LogForms :
        log_meal(2, form.food_id, form.quantity_grams, form.meal_type, 1)

FoodsEditMealLog ==
    \E l \in 1..MaxLogs, form \in EditForms :
        edit_meal_log(2, l, form.quantity_grams, form.meal_type)

FoodsDeleteMealLog == \E l \in 1..MaxLogs : delete_meal_log(2, l)

AdminDeleteFood == \E u \in DOMAIN users, f \in FoodIds : admin_delete_food(u, f)

EditFood ==
    \E u \in DOMAIN users, f \in FoodIds, form \in FoodForms : edit_food(u, f, form)

NextFoods ==
    \/ FoodsLogMeal
    \/ FoodsEditMealLog
    \/ FoodsDeleteMealLog
    \/ AdminDeleteFood
    \/ EditFood

SpecFoods == Init /\ [][NextFoods]_vars

----------------------------------------------------------------------------
(* Two users keep diaries of food 1 on two dates and name each other's logs *)

OwnersLogMeal ==
    \E u \in DOMAIN users, d \in Dates : log_meal(u, 1, 40, "Breakfast", d)

OwnersEditMealLog ==
    \E u \in DOMAIN users, l \in 1..MaxLogs, q \in Quantities :
        edit_meal_log(u, l, q, "Breakfast")

NextOwners ==
    \/ OwnersLogMeal
    \/ OwnersEditMealLog
    \/ DeleteMealLog

SpecOwners == Init /\ [][NextOwners]_vars

----------------------------------------------------------------------------
(* Profile and goals: routes/auth.py and /user/goals/update *)

\* The validation of register and edit_profile on the five profile fields.
ValidProfile(form) ==
    /\ form.age >= 13 /\ form.age <= 120
    /\ form.gender \in {"Male", "Female", "Other"}
    /\ form.height >= 100 /\ form.height <= 250
    /\ form.weight >= 30 /\ form.weight <= 300

\* Goal forms of /user/goals/update, in tenths; None is a field left empty.
\* The third asks for 900 kcal and the fourth has no calorie goal: both fail
\* the 1000-5000 validation.
GoalForms ==
    {[calorie_goal |-> 15000, protein_goal |-> None, carb_goal |-> None,
      fat_goal |-> None],
     [calorie_goal |-> 22000, protein_goal |-> 1375, carb_goal |-> 2475,
      fat_goal |-> 733],
     [calorie_goal |-> 9000, protein_goal |-> None, carb_goal |-> None,
      fat_goal |-> None],
     [calorie_goal |-> None, protein_goal |-> 600, carb_goal |-> None,
      fat_goal |-> None]}

\* routes/auth.py register (POST): the new user gets the next id.
register(form) ==
    /\ NextId(users) \in UserIds
    /\ IF ~ValidProfile(form)
       THEN /\ response' = Response("register", "error")
            /\ UNCHANGED users
       ELSE /\ users' = InsertRow(users, update_goals(NewUser(form, FALSE)))
            /\ response' = Response("register", "success")
    /\ UNCHANGED <<foods, food_logs, daily_summaries, goals_custom, reqs>>

\* edit_profile storing the new fields without recomputing the goals.
edit_profile_stale(u, form) ==
    /\ u \in DOMAIN users
    /\ IF ~ValidProfile(form)
       THEN /\ response' = Response("edit_profile", "error")
            /\ UNCHANGED <<users, goals_custom>>
       ELSE /\ users' = [users EXCEPT ![u] =
                   [@ EXCEPT !.age = form.age, !.gender = form.gender,
                             !.height = form.height, !.weight = form.weight,
                             !.activity_level = form.activity_level]]
            /\ goals_custom' = goals_custom \ {u}
            /\ response' = Response("edit_profile", "success")
    /\ UNCHANGED <<foods, food_logs, daily_summaries, reqs>>

\* routes/auth.py edit_profile (POST).
edit_profile(u, form) ==
    /\ u \in DOMAIN users
    /\ IF ~ValidProfile(form)
       THEN /\ response' = Response("edit_profile", "error")
            /\ UNCHANGED <<users, goals_custom>>
       ELSE /\ users' = [users EXCEPT ![u] = update_goals(
                   [@ EXCEPT !.age = form.age, !.gender = form.gender,
                             !.height = form.height, !.weight = form.weight,
                             !.activity_level = form.activity_level])]
            /\ goals_custom' = goals_custom \ {u}
            /\ response' = Response("edit_profile", "success")
    /\ UNCHANGED <<foods, food_logs, daily_summaries, reqs>>

\* The assignments of /user/goals/update: each submitted (truthy) value is stored.
StoredGoals(user, form) ==
    [user EXCEPT
        !.daily_calorie_goal = IF Truthy(form.calorie_goal) THEN form.calorie_goal ELSE @,
        !.protein_goal = IF Truthy(form.protein_goal) THEN form.protein_goal ELSE @,
        !.carb_goal = IF Truthy(form.carb_goal) THEN form.carb_goal ELSE @,
        !.fat_goal = IF Truthy(form.fat_goal) THEN form.fat_goal ELSE @]

\* routes/api.py update_goals (POST /user/goals/update).  A JSON request calls
\* request.json.get(key, type=float), which raises TypeError: nothing is stored.
user_goals_update(u, is_json, form) ==
    /\ u \in DOMAIN users
    /\ IF is_json
          \/ ~Truthy(form.calorie_goal)
          \/ form.calorie_goal < 10000
          \/ form.calorie_goal > 50000
       THEN /\ response' = Response("update_goals", "error")
            /\ UNCHANGED <<users, goals_custom>>
       ELSE /\ users' = [users EXCEPT ![u] = StoredGoals(@, form)]
            /\ goals_custom' = goals_custom \cup {u}
            /\ response' = Response("update_goals", "success")
    /\ UNCHANGED <<foods, food_logs, daily_summaries, reqs>>

Register == \E form \in ProfileForms : register(form)

EditProfile == \E u \in DOMAIN users, form \in ProfileForms : edit_profile(u, form)

UserGoalsUpdate ==
    \E u \in DOMAIN users, is_json \in BOOLEAN, form \in GoalForms :
        user_goals_update(u, is_json, form)

NextGoals ==
    \/ Register
    \/ EditProfile
    \/ UserGoalsUpdate

SpecGoals == Init /\ [][NextGoals]_vars

----------------------------------------------------------------------------
(* Concurrent requests: the log handlers and dashboard_data step by step, one
   step per database statement or commit *)

\* The user and the date the concurrent requests work on.
RaceUsers == {2}
RaceDates == {1}

\* The request of slot r has started and not returned.
InFlight(r) == reqs[r].pc \notin {"idle", "done", "failed"}

\* The slot of a handler that starts: its locals are empty.
Started(r, kind, u, d) ==
    [Idle EXCEPT !.kind = kind, !.pc = "commit_log", !.user_id = u, !.date = d]

\* The slot of a handler that has returned: the session and the locals are gone.
Finished(req, pc, error) ==
    [req EXCEPT !.pc = pc, !.error = error, !.log_id = 0, !.old = NoLog,
                !.row = NoLog, !.seen = 0, !.expired = FALSE,
                !.loaded = ZeroTotals]

\* Another request than r is between the query of get_or_create and the commit
\* of update_from_logs.
OtherInSummary(r) ==
    \E o \in Reqs \ {r} :
        reqs[o].pc \in {"query_summary", "insert_summary", "read_logs", "write_totals"}

\* The flush of an object that writes nothing.
Dirty_unflushed(stored, loaded, new) ==
    [f \in DOMAIN new |-> stored[f]]

\* What the unit of work flushes for an object loaded as `loaded` and set to
\* `new`: the attributes whose value changed; the others keep the stored value.
Dirty(stored, loaded, new) ==
    [f \in DOMAIN new |-> IF new[f] # loaded[f] THEN new[f] ELSE stored[f]]

\* log_meal up to db.session.add: the form is valid and create_from_food has
\* read the food and built the log.
start_log_meal(r, u, food_id, quantity_grams, log_date) ==
    /\ reqs[r].pc = "idle"
    /\ food_id \in DOMAIN foods
    /\ Cardinality(DOMAIN food_logs)
         + Cardinality({o \in Reqs : reqs[o].kind = "log_meal"
                                       /\ reqs[o].pc = "commit_log"}) < MaxLogs
    /\ reqs' = [reqs EXCEPT ![r] =
           [Started(r, "log_meal", u, log_date) EXCEPT
               !.row = create_from_food(foods[food_id], u, food_id,
                                        quantity_grams, "Breakfast", log_date)]]
    /\ UNCHANGED <<users, foods, food_logs, daily_summaries, response, goals_custom>>

\* edit_meal_log up to db.session.commit: first_or_404 loads the log, the form
\* is valid and the attributes are assigned.
start_edit_meal_log(r, u, log_id, quantity_grams) ==
    /\ reqs[r].pc = "idle"
    /\ IF log_id \notin DOMAIN food_logs \/ food_logs[log_id].user_id # u
       THEN reqs' = [reqs EXCEPT ![r] =
                Finished(Started(r, "edit_meal_log", u, 0), "failed", "NotFound")]
       ELSE reqs' = [reqs EXCEPT ![r] =
                [Started(r, "edit_meal_log", u, food_logs[log_id].date_logged)
                  EXCEPT !.log_id = log_id,
                         !.old = food_logs[log_id],
                         !.row = EditedLog(food_logs[log_id],
                                           foods[food_logs[log_id].food_id],
                                           quantity_grams, "Breakfast")]]
    /\ UNCHANGED <<users, foods, food_logs, daily_summaries, response, goals_custom>>

\* delete_meal_log up to db.session.commit: first_or_404 loads the log.
start_delete_meal_log(r, u, log_id) ==
    /\ reqs[r].pc = "idle"
    /\ IF log_id \notin DOMAIN food_logs \/ food_logs[log_id].user_id # u
       THEN reqs' = [reqs EXCEPT ![r] =
                Finished(Started(r, "delete_meal_log", u, 0), "failed", "NotFound")]
       ELSE reqs' = [reqs EXCEPT ![r] =
                [Started(r, "delete_meal_log", u, food_logs[log_id].date_logged)
                  EXCEPT !.log_id = log_id,
                         !.old = food_logs[log_id],
                         !.row = food_logs[log_id]]]
    /\ UNCHANGED <<users, foods, food_logs, daily_summaries, response, goals_custom>>

\* dashboard_data up to its query for the summary of the date.
start_dashboard_data(r, u, summary_date) ==
    /\ reqs[r].pc = "idle"
    /\ reqs' = [reqs EXCEPT ![r] =
           [Started(r, "dashboard_data", u, summary_date) EXCEPT
               !.pc = "query_summary"]]
    /\ UNCHANGED <<users, foods, food_logs, daily_summaries, response, goals_custom>>

\* db.session.commit() of the log change.  log_meal inserts the row.
\* edit_meal_log updates the attributes it changed: no statement when none
\* changed, StaleDataError when the row is gone.  delete_meal_log deletes the
\* row; a row already gone gives a warning only.
commit_log(r) ==
    /\ reqs[r].pc = "commit_log"
    /\ LET req == reqs[r]
           written == [req EXCEPT !.pc = "query_summary", !.log_written = TRUE,
                                  !.raced = OtherInSummary(r)]
       IN  CASE req.kind = "log_meal" ->
                  /\ food_logs' = InsertRow(food_logs, req.row)
                  /\ reqs' = [reqs EXCEPT ![r] =
                         [written EXCEPT !.log_id = NextId(food_logs)]]
             [] req.kind = "edit_meal_log" /\ req.row = req.old ->
                  /\ reqs' = [reqs EXCEPT ![r] = [req EXCEPT !.pc = "query_summary"]]
                  /\ UNCHANGED food_logs
             [] req.kind = "edit_meal_log" /\ req.row # req.old
                  /\ req.log_id \notin DOMAIN food_logs ->
                  /\ reqs' = [reqs EXCEPT ![r] =
                         Finished(req, "failed", "StaleDataError")]
                  /\ UNCHANGED food_logs
             [] req.kind = "edit_meal_log" /\ req.row # req.old
                  /\ req.log_id \in DOMAIN food_logs ->
                  /\ food_logs' = [food_logs EXCEPT ![req.log_id] =
                         Dirty(@, req.old, req.row)]
                  /\ reqs' = [reqs EXCEPT ![r] = written]
             [] req.kind = "delete_meal_log" ->
                  /\ food_logs' = IF req.log_id \in DOMAIN food_logs
                                  THEN DeleteRow(food_logs, req.log_id)
                                  ELSE food_logs
                  /\ reqs' = [reqs EXCEPT ![r] = written]
    /\ UNCHANGED <<users, foods, daily_summaries, response, goals_custom>>

\* Where a handler goes once it holds the summary row: dashboard_data returns,
\* the log handlers go on inside update_from_logs.
AfterGetOrCreate(req) ==
    IF req.kind = "dashboard_data" THEN Finished(req, "done", "")
    ELSE [req EXCEPT !.pc = "read_logs"]

\* The query of get_or_create (for dashboard_data, of get_today_summary before
\* it).  edit_meal_log first reloads log.date_logged, which the commit expired:
\* ObjectDeletedError when the row is gone.
query_summary(r) ==
    /\ reqs[r].pc = "query_summary"
    /\ LET req == reqs[r]
           found == SummariesOf(daily_summaries, req.user_id, req.date)
       IN  reqs' = [reqs EXCEPT ![r] =
               IF req.kind = "edit_meal_log" /\ req.log_id \notin DOMAIN food_logs
               THEN Finished(req, "failed", "ObjectDeletedError")
               ELSE IF found # {}
               THEN LET id == FirstSummary(daily_summaries, req.user_id, req.date)
                    IN  AfterGetOrCreate(
                            [req EXCEPT !.seen = id[3], !.expired = FALSE,
                                        !.loaded = [f \in DOMAIN ZeroTotals |->
                                                       daily_summaries[id][f]]])
               ELSE IF req.user_id \notin DOMAIN users
               THEN Finished(req, "failed", "ValueError")
               ELSE [req EXCEPT !.pc = "insert_summary"]]
    /\ UNCHANGED <<users, foods, food_logs, daily_summaries, response, goals_custom>>

\* db.session.add(summary); db.session.commit() of get_or_create: the unique
\* constraint rejects a second row of the user and date with IntegrityError,
\* which the handler catches (rollback, error response).
insert_summary(r) ==
    /\ reqs[r].pc = "insert_summary"
    /\ LET req == reqs[r]
           row == NewSummary(users[req.user_id], req.user_id, req.date)
       IN  IF UniqueOk(daily_summaries, row)
           THEN /\ daily_summaries' = InsertSummary(daily_summaries, row)
                /\ reqs' = [reqs EXCEPT ![r] = AfterGetOrCreate(
                       [req EXCEPT !.expired = TRUE,
                                   !.seen = Cardinality(SummariesOf(daily_summaries,
                                                req.user_id, req.date)) + 1])]
           ELSE /\ reqs' = [reqs EXCEPT ![r] =
                       Finished(req, "failed", "IntegrityError")]
                /\ UNCHANGED daily_summaries
    /\ UNCHANGED <<users, foods, food_logs, response, goals_custom>>

\* FoodLog.query.filter_by(user_id, date_logged).all() and the four sums.
read_logs(r) ==
    /\ reqs[r].pc = "read_logs"
    /\ reqs' = [reqs EXCEPT ![r] =
           [@ EXCEPT !.pc = "write_totals",
                     !.totals = LogTotals(food_logs,
                                    LogsOf(food_logs, reqs[r].user_id,
                                           reqs[r].date))]]
    /\ UNCHANGED <<users, foods, food_logs, daily_summaries, response, goals_custom>>

\* The assignments of update_from_logs and its commit, by the request of slot r
\* with the sums `totals`: an UPDATE of the attributes that differ from the
\* loaded ones, of all five when the row was expired by get_or_create's commit.
CommitTotals(r, totals) ==
    /\ daily_summaries' = [daily_summaries EXCEPT
           ![<<reqs[r].user_id, reqs[r].date, reqs[r].seen>>] =
               AssignTotals(@, IF reqs[r].expired THEN totals
                               ELSE Dirty(@, reqs[r].loaded, totals))]
    /\ reqs' = [o \in Reqs |->
           IF o = r
           THEN Finished([reqs[r] EXCEPT !.totals = totals, !.last = TRUE], "done", "")
           ELSE [reqs[o] EXCEPT !.last = FALSE]]
    /\ UNCHANGED <<users, foods, food_logs, response, goals_custom>>

\* The end of update_from_logs with sums read earlier.
write_totals(r) ==
    /\ reqs[r].pc = "write_totals"
    /\ CommitTotals(r, reqs[r].totals)

\* update_from_logs reading the logs and writing the summary row as one step,
\* as under a storage layer that serializes the read-modify-write.
update_serialized(r) ==
    /\ reqs[r].pc = "read_logs"
    /\ CommitTotals(r, LogTotals(food_logs,
                           LogsOf(food_logs, reqs[r].user_id, reqs[r].date)))

\* The log tables the concurrent requests start from: none, one or two logs of
\* the user and date, as log_meal stores them.
SeedLogTables ==
    LET first  == create_from_food(SeedFoods[1], 2, 1, 40, "Breakfast", 1)
        second == create_from_food(SeedFoods[2], 2, 2, 120, "Breakfast", 1)
    IN  {t \in {NoRows, InsertRow(NoRows, first),
                InsertRow(InsertRow(NoRows, first), second)} :
            Cardinality(DOMAIN t) < MaxLogs}

\* The database after earlier requests that ran one at a time: the logs with
\* their summary as update_from_logs left it, or no log and no summary yet.
InitRace ==
    /\ users = (1 :> update_goals(NewUser(AdminProfile, TRUE))) @@
               (2 :> update_goals(NewUser(
                        [age |-> 30, gender |-> "Male", height |-> 170,
                         weight |-> 70, activity_level |-> "Sedentary"], FALSE)))
    /\ foods = SeedFoods
    /\ \E logs \in SeedLogTables, visited \in BOOLEAN :
          /\ food_logs = logs
          /\ daily_summaries =
                 IF logs = NoRows /\ ~visited THEN NoRows
                 ELSE update_from_logs(NoRows, logs, users, 2, 1)
    /\ response = Response("init", "success")
    /\ goals_custom = {}
    /\ reqs = [r \in Reqs |-> Idle]

StartLogMeal(r) ==
    \E u \in RaceUsers, f \in FoodIds, q \in Quantities, d \in RaceDates :
        start_log_meal(r, u, f, q, d)

StartEditMealLog(r) ==
    \E u \in RaceUsers, l \in 1..MaxLogs, q \in Quantities :
        start_edit_meal_log(r, u, l, q)

StartDeleteMealLog(r) ==
    \E u \in RaceUsers, l \in 1..MaxLogs : start_delete_meal_log(r, u, l)

StartDashboardData(r) ==
    \E u \in RaceUsers, d \in RaceDates : start_dashboard_data(r, u, d)

\* A request starts or a request in flight takes its next step.
RequestStep(r) ==
    \/ StartLogMeal(r)
    \/ StartEditMealLog(r)
    \/ StartDeleteMealLog(r)
    \/ StartDashboardData(r)
    \/ commit_log(r)
    \/ query_summary(r)
    \/ insert_summary(r)

NextRace ==
    \E r \in Reqs :
        \/ RequestStep(r)
        \/ read_logs(r)
        \/ write_totals(r)

SpecRace == InitRace /\ [][NextRace]_vars

NextSerialized ==
    \E r \in Reqs :
        \/ RequestStep(r)
        \/ update_serialized(r)

SpecSerialized == InitRace /\ [][NextSerialized]_vars

----------------------------------------------------------------------------
(* Deleting a food while meals are logged: log_meal and admin_delete_food step
   by step, on SQLite as config.py sets it up (foreign keys are declared and
   not enforced) *)

\* The admin who deletes foods.
AdminUsers == {1}

\* admin_delete_food up to the count: the admin test and get_or_404.  The food
\* the request holds is kept in row.food_id.
start_admin_delete_food(r, u, food_id) ==
    /\ reqs[r].pc = "idle"
    /\ u \in DOMAIN users
    /\ reqs' = [reqs EXCEPT ![r] =
           LET req == [Started(r, "admin_delete_food", u, 0) EXCEPT
                          !.row = [NoLog EXCEPT !.food_id = food_id]]
           IN  IF ~users[u].is_admin
               THEN Finished(req, "failed", "Unauthorized")
               ELSE IF food_id \notin DOMAIN foods
               THEN Finished(req, "failed", "NotFound")
               ELSE [req EXCEPT !.pc = "count_logs"]]
    /\ UNCHANGED <<users, foods, food_logs, daily_summaries, response, goals_custom>>

\* FoodLog.query.filter_by(food_id=food_id).count() and the refusal.
count_logs(r) ==
    /\ reqs[r].pc = "count_logs"
    /\ reqs' = [reqs EXCEPT ![r] =
           IF log_count(food_logs, reqs[r].row.food_id) > 0
           THEN Finished(@, "failed", "InUse")
           ELSE [@ EXCEPT !.pc = "delete_food"]]
    /\ UNCHANGED <<users, foods, food_logs, daily_summaries, response, goals_custom>>

\* db.session.delete(food); db.session.commit().  The flush loads Food.food_logs
\* to set the food_id of each log to NULL, which NOT NULL rejects with
\* IntegrityError; with no log to detach the row is deleted.  A row already
\* gone gives a warning only.
delete_food(r) ==
    /\ reqs[r].pc = "delete_food"
    /\ LET food_id == reqs[r].row.food_id
       IN  IF log_count(food_logs, food_id) > 0
           THEN /\ reqs' = [reqs EXCEPT ![r] =
                       Finished(@, "failed", "IntegrityError")]
                /\ UNCHANGED foods
           ELSE /\ foods' = IF food_id \in DOMAIN foods
                            THEN DeleteRow(foods, food_id) ELSE foods
                /\ reqs' = [reqs EXCEPT ![r] = Finished(@, "done", "")]
    /\ UNCHANGED <<users, food_logs, daily_summaries, response, goals_custom>>

StartAdminDeleteFood(r) ==
    \E u \in AdminUsers \cup RaceUsers, f \in FoodIds : start_admin_delete_food(r, u, f)

NextDelete ==
    \E r \in Reqs :
        \/ StartLogMeal(r)
        \/ commit_log(r)
        \/ query_summary(r)
        \/ insert_summary(r)
        \/ update_serialized(r)
        \/ StartAdminDeleteFood(r)
        \/ count_logs(r)
        \/ delete_food(r)

SpecDelete == InitRace /\ [][NextDelete]_vars

----------------------------------------------------------------------------
(* DailySummary called directly: get_or_create and update_from_logs with any
   user id and date, between log writes and goal changes *)

\* The ordinary user as registered, and the same user as the constructor leaves
\* the row before update_goals: the goal columns are nullable.
SummaryUsers ==
    LET profile == [age |-> 30, gender |-> "Male", height |-> 170,
                    weight |-> 70, activity_level |-> "Sedentary"]
    IN  {update_goals(NewUser(profile, FALSE)), NewUser(profile, FALSE)}

InitSummary ==
    /\ \E user \in SummaryUsers :
          users = (1 :> update_goals(NewUser(AdminProfile, TRUE))) @@ (2 :> user)
    /\ foods = SeedFoods
    /\ food_logs = NoRows
    /\ daily_summaries = NoRows
    /\ response = Response("init", "success")
    /\ goals_custom = {}
    /\ reqs = [r \in Reqs |-> Idle]

\* A call DailySummary.get_or_create(user_id, summary_date): ValueError
\* ("User not found") or the row returned.
call_get_or_create(user_id, summary_date) ==
    /\ daily_summaries' = get_or_create(daily_summaries, users, user_id, summary_date)
    /\ response' = Response("get_or_create",
           IF get_or_create_raises(daily_summaries, users, user_id, summary_date)
           THEN "error" ELSE "success")
    /\ UNCHANGED <<users, foods, food_logs, goals_custom, reqs>>

\* A call DailySummary.update_from_logs(user_id, summary_date).
call_update_from_logs(user_id, summary_date) ==
    /\ daily_summaries' = update_from_logs(daily_summaries, food_logs, users,
                                           user_id, summary_date)
    /\ response' = Response("update_from_logs",
           IF get_or_create_raises(daily_summaries, users, user_id, summary_date)
           THEN "error" ELSE "success")
    /\ UNCHANGED <<users, foods, food_logs, goals_custom, reqs>>

\* The log_meal forms of this specification: all pass the validation; food 9
\* has no row.
SummaryLogForms ==
    [food_id : {1, 9}, quantity_grams : Quantities, meal_type : {"Breakfast"}]

\* The user ids of the direct calls: user 2 has a row, user 3 has none.
SummaryCallers == {u \in UserIds : u > 1}

CallGetOrCreate == \E u \in SummaryCallers, d \in Dates : call_get_or_create(u, d)

CallUpdateFromLogs ==
    \E u \in SummaryCallers, d \in Dates : call_update_from_logs(u, d)

SummaryLogMeal ==
    \E form \in SummaryLogForms, d \in RaceDates :
        log_meal(2, form.food_id, form.quantity_grams, form.meal_type, d)

SummaryDeleteMealLog == \E l \in 1..MaxLogs : delete_meal_log(2, l)

SummaryEditMealLog ==
    \E l \in 1..MaxLogs, q \in Quantities : edit_meal_log(2, l, q, "Breakfast")

SummaryEditProfile ==
    \E form \in {f \in ProfileForms : f.weight = 60} : edit_profile(2, form)

SummaryUserGoalsUpdate ==
    \E form \in {f \in GoalForms : f.calorie_goal = 22000} :
        user_goals_update(2, FALSE, form)

NextSummary ==
    \/ CallGetOrCreate
    \/ CallUpdateFromLogs
    \/ SummaryLogMeal
    \/ SummaryDeleteMealLog
    \/ SummaryEditMealLog
    \/ SummaryEditProfile
    \/ SummaryUserGoalsUpdate

SpecSummary == InitSummary /\ [][NextSummary]_vars

----------------------------------------------------------------------------
(* models/food.py: suitability, search and recommendations over the catalogue *)

\* Foods rows with the columns the queries use.  Seven rows are seeded foods of
\* database/seed_data.py; row 8 is a food as add_food stores it with no
\* calories and no glycemic index.  Amounts are in tenths.  terms holds the
\* search texts of SearchTerms that occur (case-insensitively) in the name, the
\* Hindi name, the category or the description of the row.
CatalogueRow(id, name, category, food_type, calories, protein, fiber, gi, terms) ==
    [id |-> id, name |-> name, category |-> category, food_type |-> food_type,
     calories_per_100g |-> calories, protein_per_100g |-> protein,
     fiber_per_100g |-> fiber, gi_index |-> gi, is_active |-> TRUE,
     terms |-> terms]

CatalogueFoods ==
    <<CatalogueRow(1, "Upma", "South Indian", "Vegetarian", 1010, 26, 12, 67, {}),
      CatalogueRow(2, "Dal Tadka", "Dal & Lentils", "Vegetarian", 1080, 76, 42, 35, {}),
      CatalogueRow(3, "Biryani (Chicken)", "Rice & Grains", "Non-Vegetarian",
                   1650, 82, 8, 45, {"chicken"}),
      CatalogueRow(4, "Palak Paneer", "Vegetables", "Vegetarian", 1180, 72, 29, 15, {}),
      CatalogueRow(5, "Boiled Egg", "Eggs", "Eggetarian", 1550, 130, 0, 0, {"chicken"}),
      CatalogueRow(6, "Chicken Curry", "Non-Vegetarian", "Non-Vegetarian",
                   1650, 186, 12, 10, {"chicken"}),
      CatalogueRow(7, "Gulab Jamun", "Sweets", "Vegetarian", 3870, 62, 8, 85, {}),
      CatalogueRow(8, "Water", "Beverages", "Vegetarian", 0, 0, 0, None, {})>>

\* The names of the catalogue in ascending order (ORDER BY foods.name).
NameOrder ==
    <<"Biryani (Chicken)", "Boiled Egg", "Chicken Curry", "Dal Tadka",
      "Gulab Jamun", "Palak Paneer", "Rasam", "Sambhar", "Upma", "Water">>

\* Food.get_nutrition_density: round(protein / calories * 100, 2) in
\* hundredths, 0 for a food without calories.
get_nutrition_density(food) ==
    IF food.calories_per_100g = 0 THEN 0
    ELSE Round(food.protein_per_100g * 10000, food.calories_per_100g)

\* Food.is_suitable_for_diabetic.
is_suitable_for_diabetic(food) ==
    IF food.gi_index = None THEN TRUE ELSE food.gi_index <= 55

\* is_suitable_for_user without the check of the disliked foods.
is_suitable_for_user_dislikes_ignored(food, user) ==
    IF user.food_preferences = "Vegetarian" /\ food.food_type # "Vegetarian"
    THEN FALSE
    ELSE IF user.food_preferences = "Eggetarian" /\ food.food_type = "Non-Vegetarian"
    THEN FALSE
    ELSE IF user.is_diabetic /\ ~is_suitable_for_diabetic(food)
    THEN FALSE
    ELSE TRUE

\* Food.is_suitable_for_user; user.disliked_foods is what get_disliked_foods
\* returns, the ids of the stored JSON array.
is_suitable_for_user(food, user) ==
    IF user.food_preferences = "Vegetarian" /\ food.food_type # "Vegetarian"
    THEN FALSE
    ELSE IF user.food_preferences = "Eggetarian" /\ food.food_type = "Non-Vegetarian"
    THEN FALSE
    ELSE IF user.is_diabetic /\ ~is_suitable_for_diabetic(food)
    THEN FALSE
    ELSE IF food.id \in user.disliked_foods
    THEN FALSE
    ELSE TRUE

\* The sequences that list the ids of S once each in an order that respects
\* the pairs of before: the rows of a query with ORDER BY, rows that tie in any
\* order.
RECURSIVE Ordered(_, _)
Ordered(S, before) ==
    IF S = {} THEN {<<>>}
    ELSE UNION {{<<x>> \o rest : rest \in Ordered(S \ {x}, before)} :
                   x \in {y \in S : \A z \in S : <<z, y>> \notin before}}

\* LIMIT n on a result: the first n rows; a negative n is no limit in SQLite.
Limit(rows, n) ==
    IF n < 0 \/ n >= Len(rows) THEN rows ELSE SubSeq(rows, 1, n)

\* The ids of a result.
Range(rows) == {rows[i] : i \in 1..Len(rows)}

\* The meal types and search texts the requests submit; "" is a parameter left
\* out (the handlers pass None for it).
MealTypes == {"", "Breakfast", "LUNCH", "Evening Snack", "Brunch"}
SearchTerms == {"", "chicken"}

\* The meal-specific filter comparing the meal type as submitted, without
\* lower().
MealFilter_case_sensitive(food, meal_type) ==
    IF meal_type = "" THEN TRUE
    ELSE IF meal_type \in {"breakfast", "mid-morning"}
    THEN food.fiber_per_100g >= 15
    ELSE IF meal_type \in {"lunch", "dinner"}
    THEN food.protein_per_100g >= 30
    ELSE IF meal_type \in {"evening snack", "late night"}
    THEN food.calories_per_100g <= 2500
    ELSE TRUE

\* The meal-specific filter of get_recommended_for_user.
MealFilter(food, meal_type) ==
    IF meal_type = "" THEN TRUE
    ELSE IF Lower(meal_type) \in {"breakfast", "mid-morning"}
    THEN food.fiber_per_100g >= 15
    ELSE IF Lower(meal_type) \in {"lunch", "dinner"}
    THEN food.protein_per_100g >= 30
    ELSE IF Lower(meal_type) \in {"evening snack", "late night"}
    THEN food.calories_per_100g <= 2500
    ELSE TRUE

\* The base query without the food type filter.
Candidates_any_type(fs, user, meal_type) ==
    {id \in DOMAIN fs :
        /\ fs[id].is_active
        /\ user.is_diabetic => (fs[id].gi_index = None \/ fs[id].gi_index <= 55)
        /\ id \notin user.disliked_foods
        /\ MealFilter(fs[id], meal_type)}

\* The base query of get_recommended_for_user: the ids of the active foods that
\* pass the food type, diabetic, disliked and meal filters.
Candidates(fs, user, meal_type) ==
    {id \in DOMAIN fs :
        /\ fs[id].is_active
        /\ user.food_preferences = "Vegetarian" => fs[id].food_type = "Vegetarian"
        /\ user.food_preferences = "Eggetarian" =>
               fs[id].food_type \in {"Vegetarian", "Eggetarian"}
        /\ user.is_diabetic => (fs[id].gi_index = None \/ fs[id].gi_index <= 55)
        /\ id \notin user.disliked_foods
        /\ MealFilter(fs[id], meal_type)}

\* The first query restricted to the South Indian category alone.
PreferredCategories_south_only == {"South Indian"}

\* The categories of the first query of get_recommended_for_user.
PreferredCategories == {"South Indian", "Dal & Lentils", "Rice & Grains", "Vegetables"}

\* The first ORDER BY without the category key.
CategoryRank_flat(category) == 1

\* The db.case of the first ORDER BY.
CategoryRank(category) ==
    CASE category = "South Indian" -> 1
      [] category = "Dal & Lentils" -> 2
      [] category = "Rice & Grains" -> 3
      [] category = "Vegetables" -> 4
      [] OTHER -> 5

\* The descending order with NULL first, as a database that sorts NULL high
\* would return it.
DensityAbove_nulls_first(a, b) ==
    /\ b.calories_per_100g # 0
    /\ \/ a.calories_per_100g = 0
       \/ a.protein_per_100g * b.calories_per_100g
            > b.protein_per_100g * a.calories_per_100g

\* (protein_per_100g / calories_per_100g) DESC puts a before b.  With 0 calories
\* the quotient is NULL in SQLite, and NULL comes last in descending order.
DensityAbove(a, b) ==
    /\ a.calories_per_100g # 0
    /\ \/ b.calories_per_100g = 0
       \/ a.protein_per_100g * b.calories_per_100g
            > b.protein_per_100g * a.calories_per_100g

\* Food.get_recommended_for_user: the lists the two queries can return.
get_recommended_for_user(fs, user, meal_type, limit) ==
    LET candidates == Candidates(fs, user, meal_type)
        preferred  == {id \in candidates : fs[id].category \in PreferredCategories}
        others     == candidates \ preferred
        firstOrder == {p \in preferred \X preferred :
                          \/ CategoryRank(fs[p[1]].category)
                               < CategoryRank(fs[p[2]].category)
                          \/ /\ CategoryRank(fs[p[1]].category)
                                  = CategoryRank(fs[p[2]].category)
                             /\ DensityAbove(fs[p[1]], fs[p[2]])}
        otherOrder == {p \in others \X others : DensityAbove(fs[p[1]], fs[p[2]])}
    IN  UNION {IF Len(south_indian_foods) < limit
               THEN {south_indian_foods \o Limit(other_foods, limit - Len(south_indian_foods)) :
                        other_foods \in Ordered(others, otherOrder)}
               ELSE {south_indian_foods} :
               south_indian_foods \in {Limit(rows, limit) :
                                          rows \in Ordered(preferred, firstOrder)}}

\* The position of a name in ascending name order.
NameIndex(name) == CHOOSE i \in 1..Len(NameOrder) : NameOrder[i] = name

\* The filters of Food.search: the ids of the active foods that match the text,
\* the category and the food type, each where given.
SearchMatches(fs, query, category, food_type) ==
    {id \in DOMAIN fs :
        /\ fs[id].is_active
        /\ query # "" => query \in fs[id].terms
        /\ category # "" => fs[id].category = category
        /\ food_type # "" => fs[id].food_type = food_type}

\* Food.search applying the suitability filter inside the query, before the
\* limit.
search_filter_first(fs, query, user, category, food_type, limit) ==
    LET matches == {id \in SearchMatches(fs, query, category, food_type) :
                       is_suitable_for_user(fs[id], user)}
        byName  == {p \in matches \X matches :
                       NameIndex(fs[p[1]].name) < NameIndex(fs[p[2]].name)}
    IN  {Limit(rows, limit) : rows \in Ordered(matches, byName)}

\* Food.search with a user: the lists it can return.
search(fs, query, user, category, food_type, limit) ==
    LET matches == SearchMatches(fs, query, category, food_type)
        byName  == {p \in matches \X matches :
                       NameIndex(fs[p[1]].name) < NameIndex(fs[p[2]].name)}
        Suitable(id) == is_suitable_for_user(fs[id], user)
    IN  {SelectSeq(Limit(rows, limit), Suitable) : rows \in Ordered(matches, byName)}

\* Largest limit below the defaults that a recommendation request asks for.
MaxLimit == 3

\* The limits submitted: small ones, and the defaults 10 (recommendations) and
\* 20 (search).
RecommendLimits == 0..MaxLimit \cup {10}
SearchLimits == {1, 2, 20}

\* The response of a catalogue request: the handler, its arguments and the ids
\* of the foods returned, in order.
Found(op, status, args, result) ==
    [op |-> op, status |-> status, args |-> args, result |-> result]

\* The food preference values of the profile form.
Preferences == {"Vegetarian", "Eggetarian", "Non-Vegetarian"}

\* The stored lists of disliked food ids: none, or Dal Tadka and Chicken Curry.
DislikedSets == {{}, {2, 6}}

\* A users row with the diet columns.
DietUser(user, food_preferences, is_diabetic, disliked_foods) ==
    [food_preferences |-> food_preferences, is_diabetic |-> is_diabetic,
     disliked_foods |-> disliked_foods] @@ user

InitCatalogue ==
    /\ \E disliked \in DislikedSets :
          users = (1 :> DietUser(update_goals(NewUser(AdminProfile, TRUE)),
                                 "Vegetarian", FALSE, {})) @@
                  (2 :> DietUser(update_goals(NewUser(
                            [age |-> 30, gender |-> "Male", height |-> 170,
                             weight |-> 70, activity_level |-> "Sedentary"], FALSE)),
                                 "Vegetarian", FALSE, disliked))
    /\ foods = CatalogueFoods
    /\ food_logs = NoRows
    /\ daily_summaries = NoRows
    /\ response = Found("init", "success", <<>>, <<>>)
    /\ goals_custom = {}
    /\ reqs = [r \in Reqs |-> Idle]

\* edit_profile submitted with new diet fields and the physical fields as stored.
edit_profile_diet(u, food_preferences, is_diabetic) ==
    /\ u \in DOMAIN users
    /\ users' = [users EXCEPT ![u] =
           [@ EXCEPT !.food_preferences = food_preferences,
                     !.is_diabetic = is_diabetic]]
    /\ response' = Found("edit_profile", "success", <<>>, <<>>)
    /\ UNCHANGED <<foods, food_logs, daily_summaries, goals_custom, reqs>>

\* edit_food submitted by an admin with the is_active box changed and the other
\* fields as stored.
edit_food_active(u, food_id, is_active) ==
    /\ u \in DOMAIN users
    /\ food_id \in DOMAIN foods
    /\ IF ~users[u].is_admin
       THEN /\ response' = Found("edit_food", "unauthorized", <<>>, <<>>)
            /\ UNCHANGED foods
       ELSE /\ foods' = [foods EXCEPT ![food_id].is_active = is_active]
            /\ response' = Found("edit_food", "success", <<>>, <<>>)
    /\ UNCHANGED <<users, food_logs, daily_summaries, goals_custom, reqs>>

\* routes/api.py recommendations.
recommendations(u, meal_type, limit) ==
    /\ u \in DOMAIN users
    /\ \E result \in get_recommended_for_user(foods, users[u], meal_type, limit) :
          response' = Found("recommendations", "success",
                            <<u, meal_type, limit>>, result)
    /\ UNCHANGED <<users, foods, food_logs, daily_summaries, goals_custom, reqs>>

\* routes/api.py search_foods: an error when no search parameter is given.
search_foods(u, query, food_type, limit) ==
    /\ u \in DOMAIN users
    /\ IF query = "" /\ food_type = ""
       THEN response' = Found("search_foods", "error",
                              <<u, query, food_type, limit>>, <<>>)
       ELSE \E result \in search(foods, query, users[u], "", food_type, limit) :
               response' = Found("search_foods", "success",
                                 <<u, query, food_type, limit>>, result)
    /\ UNCHANGED <<users, foods, food_logs, daily_summaries, goals_custom, reqs>>

\* The foods the admin switches on and off.
SwitchedFoods == {id \in DOMAIN CatalogueFoods : id \in {1, 2, 4}}

EditProfileDiet ==
    \E p \in Preferences, d \in BOOLEAN : edit_profile_diet(2, p, d)

EditFoodActive ==
    \E u \in DOMAIN users, f \in SwitchedFoods, a \in BOOLEAN :
        edit_food_active(u, f, a)

Recommendations ==
    \E m \in MealTypes, n \in RecommendLimits : recommendations(2, m, n)

SearchFoods ==
    \E q \in SearchTerms, t \in {"", "Vegetarian"}, n \in SearchLimits :
        search_foods(2, q, t, n)

NextCatalogue ==
    \/ EditProfileDiet
    \/ EditFoodActive
    \/ Recommendations
    \/ SearchFoods

SpecCatalogue == InitCatalogue /\ [][NextCatalogue]_vars

----------------------------------------------------------------------------
(* Ranking: recommendations over a catalogue with several foods of one     *)
(* category and foods without calories                                     *)

\* The catalogue with Sambhar and Rasam, two more South Indian foods of the
\* seed.
RankingFoods ==
    CatalogueFoods \o
    <<CatalogueRow(9, "Sambhar", "South Indian", "Vegetarian", 850, 42, 38, 30, {}),
      CatalogueRow(10, "Rasam", "South Indian", "Vegetarian", 520, 21, 18, 25, {})>>

\* The calories the admin stores for Rasam: none, or the seeded value.
RasamCalories == {0, 520}

InitRanking ==
    /\ \E disliked \in DislikedSets :
          users = (1 :> DietUser(update_goals(NewUser(AdminProfile, TRUE)),
                                 "Vegetarian", FALSE, {})) @@
                  (2 :> DietUser(update_goals(NewUser(
                            [age |-> 30, gender |-> "Male", height |-> 170,
                             weight |-> 70, activity_level |-> "Sedentary"], FALSE)),
                                 "Non-Vegetarian", FALSE, disliked))
    /\ foods = RankingFoods
    /\ food_logs = NoRows
    /\ daily_summaries = NoRows
    /\ response = Found("init", "success", <<>>, <<>>)
    /\ goals_custom = {}
    /\ reqs = [r \in Reqs |-> Idle]

\* routes/admin.py edit_food as far as it assigns calories_per_100g.
edit_food_calories(u, food_id, calories_per_100g) ==
    /\ u \in DOMAIN users
    /\ food_id \in DOMAIN foods
    /\ IF ~users[u].is_admin
       THEN /\ response' = Found("edit_food", "unauthorized", <<>>, <<>>)
            /\ UNCHANGED foods
       ELSE IF calories_per_100g = None \/ calories_per_100g < 0
       THEN /\ response' = Found("edit_food", "error", <<>>, <<>>)
            /\ UNCHANGED foods
       ELSE /\ foods' = [foods EXCEPT ![food_id].calories_per_100g =
                                          calories_per_100g]
            /\ response' = Found("edit_food", "success", <<>>, <<>>)
    /\ UNCHANGED <<users, food_logs, daily_summaries, goals_custom, reqs>>

\* routes/admin.py food_detail: the nutrition density shown for a food.
food_detail(u, food_id) ==
    /\ u \in DOMAIN users
    /\ IF ~users[u].is_admin
       THEN response' = Found("food_detail", "unauthorized", <<food_id>>, <<>>)
       ELSE IF food_id \notin DOMAIN foods
       THEN response' = Found("food_detail", "not_found", <<food_id>>, <<>>)
       ELSE response' = Found("food_detail", "success", <<food_id>>,
                              <<get_nutrition_density(foods[food_id])>>)
    /\ UNCHANGED <<users, foods, food_logs, daily_summaries, goals_custom, reqs>>

EditFoodCalories ==
    \E u \in DOMAIN users, c \in RasamCalories \cup {None} :
        edit_food_calories(u, 10, c)

FoodDetail == \E u \in DOMAIN users, f \in {8, 9, 10, 11} : food_detail(u, f)

RankingEditFoodActive ==
    \E f \in {1, 9}, a \in BOOLEAN : edit_food_active(1, f, a)

RankingEditProfileDiet == \E d \in BOOLEAN : edit_profile_diet(2, "Non-Vegetarian", d)

NextRanking ==
    \/ Recommendations
    \/ EditFoodCalories
    \/ FoodDetail
    \/ RankingEditFoodActive
    \/ RankingEditProfileDiet

SpecRanking == InitRanking /\ [][NextRanking]_vars

----------------------------------------------------------------------------
(* Serving units: Food.get_serving_units.  A name is the sequence of its   *)
(* characters; quantities are in tenths of a unit                          *)

UpperLetters ==
    <<"A", "B", "C", "D", "E", "F", "G", "H", "I", "J", "K", "L", "M",
      "N", "O", "P", "Q", "R", "S", "T", "U", "V", "W", "X", "Y", "Z">>
LowerLetters ==
    <<"a", "b", "c", "d", "e", "f", "g", "h", "i", "j", "k", "l", "m",
      "n", "o", "p", "q", "r", "s", "t", "u", "v", "w", "x", "y", "z">>

\* str.lower() on a name.
LowerName(name) ==
    [i \in DOMAIN name |->
        IF \E k \in DOMAIN UpperLetters : UpperLetters[k] = name[i]
        THEN LowerLetters[CHOOSE k \in DOMAIN UpperLetters : UpperLetters[k] = name[i]]
        ELSE name[i]]

\* word in name: word is a substring of name.
Contains(name, word) ==
    \E i \in 0..(Len(name) - Len(word)) : SubSeq(name, i + 1, i + Len(word)) = word

\* any(word in name_lower for word in words)
AnyIn(name_lower, words) == \E word \in words : Contains(name_lower, word)

\* The keyword lists of the seven name rules.
PieceItemsWords ==
    {<<"i", "d", "l", "i">>,
     <<"d", "o", "s", "a">>,
     <<"v", "a", "d", "a">>,
     <<"u", "t", "t", "a", "p", "a", "m">>,
     <<"d", "h", "o", "k", "l", "a">>,
     <<"k", "h", "a", "n", "d", "v", "i">>}
CupGrainWords ==
    {<<"r", "i", "c", "e">>,
     <<"b", "i", "r", "y", "a", "n", "i">>,
     <<"p", "u", "l", "a", "o">>,
     <<"k", "h", "e", "e", "r">>,
     <<"p", "o", "n", "g", "a", "l">>}
CupCurryWords ==
    {<<"d", "a", "l">>,
     <<"c", "u", "r", "r", "y">>,
     <<"s", "a", "b", "z", "i">>,
     <<"s", "a", "m", "b", "a", "r">>,
     <<"r", "a", "s", "a", "m">>,
     <<"k", "a", "d", "h", "i">>}
PieceBreadWords ==
    {<<"r", "o", "t", "i">>,
     <<"c", "h", "a", "p", "a", "t", "i">>,
     <<"n", "a", "a", "n">>,
     <<"p", "a", "r", "a", "t", "h", "a">>,
     <<"p", "u", "r", "i">>,
     <<"k", "u", "l", "c", "h", "a">>}
PieceSweetsWords ==
    {<<"l", "a", "d", "d", "u">>,
     <<"h", "a", "l", "w", "a">>,
     <<"b", "u", "r", "f", "i">>,
     <<"g", "u", "l", "a", "b", " ", "j", "a", "m", "u", "n">>,
     <<"r", "a", "s", "g", "u", "l", "l", "a">>,
     <<"s", "w", "e", "e", "t">>}
PieceSnacksWords ==
    {<<"s", "a", "m", "o", "s", "a">>,
     <<"p", "a", "k", "o", "r", "a">>,
     <<"b", "h", "e", "l">>,
     <<"c", "h", "a", "t">>,
     <<"n", "a", "m", "k", "e", "e", "n">>}
CupBeveragesWords ==
    {<<"t", "e", "a">>,
     <<"c", "o", "f", "f", "e", "e">>,
     <<"j", "u", "i", "c", "e">>,
     <<"m", "i", "l", "k">>,
     <<"d", "r", "i", "n", "k">>}

\* The dict get_serving_units returns.
ServingUnit(unit, grams_per_unit, common_quantities) ==
    [unit |-> unit, grams_per_unit |-> grams_per_unit,
     common_quantities |-> common_quantities]

\* get_serving_units testing the two category rules before the name rules.
get_serving_units_category_first(food) ==
    LET name_lower == LowerName(food.name)
    IN  IF food.category = "Vegetables"
        THEN ServingUnit("cup", 150, <<5, 10, 15, 20>>)
        ELSE IF food.category = "Fruits"
        THEN ServingUnit("piece", 100, <<5, 10, 15, 20, 30>>)
        ELSE IF AnyIn(name_lower, PieceItemsWords)
        THEN ServingUnit("piece", 30, <<10, 20, 30, 40, 50, 60>>)
        ELSE IF AnyIn(name_lower, CupGrainWords)
        THEN ServingUnit("cup", 150, <<5, 10, 15, 20>>)
        ELSE IF AnyIn(name_lower, CupCurryWords)
        THEN ServingUnit("cup", 200, <<5, 10, 15, 20>>)
        ELSE IF AnyIn(name_lower, PieceBreadWords)
        THEN ServingUnit("piece", 40, <<10, 20, 30, 40, 50, 60>>)
        ELSE IF AnyIn(name_lower, PieceSweetsWords)
        THEN ServingUnit("piece", 25, <<10, 20, 30, 40, 50, 60>>)
        ELSE IF AnyIn(name_lower, PieceSnacksWords)
        THEN ServingUnit("piece", 20, <<10, 20, 30, 40, 50, 100>>)
        ELSE IF AnyIn(name_lower, CupBeveragesWords)
        THEN ServingUnit("cup", 150, <<10, 15, 20, 25, 30>>)
        ELSE ServingUnit("grams", 1, <<500, 1000, 1500, 2000, 2500>>)

\* Food.get_serving_units.
get_serving_units(food) ==
    LET name_lower == LowerName(food.name)
    IN  IF AnyIn(name_lower, PieceItemsWords)
        THEN ServingUnit("piece", 30, <<10, 20, 30, 40, 50, 60>>)
        ELSE IF AnyIn(name_lower, CupGrainWords)
        THEN ServingUnit("cup", 150, <<5, 10, 15, 20>>)
        ELSE IF AnyIn(name_lower, CupCurryWords)
        THEN ServingUnit("cup", 200, <<5, 10, 15, 20>>)
        ELSE IF AnyIn(name_lower, PieceBreadWords)
        THEN ServingUnit("piece", 40, <<10, 20, 30, 40, 50, 60>>)
        ELSE IF AnyIn(name_lower, PieceSweetsWords)
        THEN ServingUnit("piece", 25, <<10, 20, 30, 40, 50, 60>>)
        ELSE IF AnyIn(name_lower, PieceSnacksWords)
        THEN ServingUnit("piece", 20, <<10, 20, 30, 40, 50, 100>>)
        ELSE IF AnyIn(name_lower, CupBeveragesWords)
        THEN ServingUnit("cup", 150, <<10, 15, 20, 25, 30>>)
        ELSE IF food.category = "Vegetables"
        THEN ServingUnit("cup", 150, <<5, 10, 15, 20>>)
        ELSE IF food.category = "Fruits"
        THEN ServingUnit("piece", 100, <<5, 10, 15, 20, 30>>)
        ELSE ServingUnit("grams", 1, <<500, 1000, 1500, 2000, 2500>>)

\* The names and categories the admin gives to a food: names of one rule, of
\* several rules, of none, and in capitals.
ServingNames ==
    {<<"I", "d", "l", "i">>,
     <<"M", "a", "s", "a", "l", "a", " ", "D", "O", "S", "A">>,
     <<"C", "u", "r", "d", " ", "R", "i", "c", "e">>,
     <<"D", "a", "l", " ", "R", "i", "c", "e">>,
     <<"R", "i", "c", "e", " ", "I", "d", "l", "i">>,
     <<"D", "a", "l", " ", "T", "a", "d", "k", "a">>,
     <<"S", "a", "m", "b", "h", "a", "r">>,
     <<"P", "a", "r", "a", "t", "h", "a">>,
     <<"G", "u", "l", "a", "b", " ", "J", "a", "m", "u", "n">>,
     <<"S", "w", "e", "e", "t", " ", "R", "o", "t", "i">>,
     <<"S", "a", "m", "o", "s", "a", " ", "C", "h", "a", "t">>,
     <<"F", "r", "u", "i", "t", " ", "J", "u", "i", "c", "e">>,
     <<"S", "t", "e", "a", "m", "e", "d", " ", "P", "e", "a", "s">>,
     <<"P", "a", "l", "a", "k", " ", "P", "a", "n", "e", "e", "r">>,
     <<"B", "a", "n", "a", "n", "a">>,
     <<"B", "o", "i", "l", "e", "d", " ", "E", "g", "g">>,
     <<"A", "l", "o", "o", " ", "C", "u", "r", "r", "y">>}
ServingCategories == {"South Indian", "Vegetables", "Fruits"}

\* A foods row with the two columns get_serving_units reads.
NamedFood(name, category) == [name |-> name, category |-> category]

InitServing ==
    /\ users = (1 :> update_goals(NewUser(AdminProfile, TRUE)))
    /\ \E name \in ServingNames, category \in ServingCategories :
          foods = <<NamedFood(name, category)>>
    /\ food_logs = NoRows
    /\ daily_summaries = NoRows
    /\ response = Response("init", "success")
    /\ goals_custom = {}
    /\ reqs = [r \in Reqs |-> Idle]

\* routes/admin.py edit_food as far as it assigns name and category.
edit_food_name(food_id, name, category) ==
    /\ food_id \in DOMAIN foods
    /\ IF name = <<>> \/ category = ""
       THEN /\ response' = Response("edit_food", "error")
            /\ UNCHANGED foods
       ELSE /\ foods' = [foods EXCEPT ![food_id] = NamedFood(name, category)]
            /\ response' = Response("edit_food", "success")
    /\ UNCHANGED <<users, food_logs, daily_summaries, goals_custom, reqs>>

\* Food.to_dict as far as serving_units goes.
food_to_dict(food_id) ==
    /\ food_id \in DOMAIN foods
    /\ response' = [op |-> "food_to_dict", status |-> "success",
                    food_id |-> food_id,
                    serving_units |-> get_serving_units(foods[food_id])]
    /\ UNCHANGED <<users, foods, food_logs, daily_summaries, goals_custom, reqs>>

EditFoodName ==
    \E name \in ServingNames \cup {<<>>},
       category \in ServingCategories \cup {""} : edit_food_name(1, name, category)

FoodToDict == \E f \in DOMAIN foods : food_to_dict(f)

NextServing == EditFoodName \/ FoodToDict

SpecServing == InitServing /\ [][NextServing]_vars

----------------------------------------------------------------------------
(* Progress of a day: the derived values of a DailySummary
   (models/food_log.py) and User.get_calorie_progress (models/user.py) *)

\* round((total / goal) * 100, 1) in tenths of a percent, 0 for a goal of 0.
Percentage(total, goal) ==
    IF goal = 0 THEN 0 ELSE Round(total * 1000, goal)

\* DailySummary.calorie_percentage and the three macro percentages.
calorie_percentage(summary) == Percentage(summary.total_calories, summary.calorie_goal)
protein_percentage(summary) == Percentage(summary.total_protein, summary.protein_goal)
carb_percentage(summary) == Percentage(summary.total_carbs, summary.carb_goal)
fat_percentage(summary) == Percentage(summary.total_fat, summary.fat_goal)

\* The remaining calories without the floor at 0.
calories_remaining_signed(summary) ==
    summary.calorie_goal - summary.total_calories

\* DailySummary.calories_remaining: max(0, calorie_goal - total_calories).
calories_remaining(summary) ==
    Max({0, summary.calorie_goal - summary.total_calories})

\* The derived fields of DailySummary.to_dict for the row id.
to_dict(summaries, id) ==
    [op |-> "to_dict", status |-> "success", id |-> id,
     calorie_percentage |-> calorie_percentage(summaries[id]),
     protein_percentage |-> protein_percentage(summaries[id]),
     carb_percentage    |-> carb_percentage(summaries[id]),
     fat_percentage     |-> fat_percentage(summaries[id]),
     calories_remaining |-> calories_remaining(summaries[id])]

\* User.get_calorie_progress for a date: from the summary of the date, or from
\* the user's goal when there is none.
get_calorie_progress(summaries, user, user_id, summary_date) ==
    IF SummariesOf(summaries, user_id, summary_date) = {}
    THEN LET goal == IF Truthy(user.daily_calorie_goal)
                     THEN user.daily_calorie_goal ELSE 20000
         IN  [op |-> "get_calorie_progress", status |-> "success",
              user_id |-> user_id, date |-> summary_date,
              consumed |-> 0, goal |-> goal, remaining |-> goal, percentage |-> 0]
    ELSE LET summary == summaries[FirstSummary(summaries, user_id, summary_date)]
             remaining == Max({0, summary.calorie_goal - summary.total_calories})
             percentage == IF summary.calorie_goal > 0
                           THEN Round(summary.total_calories * 1000,
                                      summary.calorie_goal)
                           ELSE 0
         IN  [op |-> "get_calorie_progress", status |-> "success",
              user_id |-> user_id, date |-> summary_date,
              consumed |-> Round(summary.total_calories, 1),
              goal |-> summary.calorie_goal,
              remaining |-> Round(remaining, 1),
              percentage |-> percentage]

\* The totals and goals of the summary rows examined: nothing eaten, Scenario C
\* (1200 kcal against 2000), consumption above the goal, and goals of 0.
ProgressTotals ==
    [total_calories : {0, 520, 12000, 25000}, total_protein : {0, 41, 700},
     total_carbs : {0, 282}, total_fat : {0, 3}]
ProgressGoals ==
    [calorie_goal : {0, 19410, 20000}, protein_goal : {0, 500, 1213},
     carb_goal : {0, 2000}, fat_goal : {0, 650}]

\* A stored summary of user 2 on date 1 with given totals and goals.
ProgressSummary(totals, goals) ==
    [user_id        |-> 2,
     date           |-> 1,
     total_calories |-> totals.total_calories,
     total_protein  |-> totals.total_protein,
     total_carbs    |-> totals.total_carbs,
     total_fat      |-> totals.total_fat,
     calorie_goal   |-> goals.calorie_goal,
     protein_goal   |-> goals.protein_goal,
     carb_goal      |-> goals.carb_goal,
     fat_goal       |-> goals.fat_goal,
     meals_logged   |-> 1]

InitProgress ==
    /\ users = (1 :> update_goals(NewUser(AdminProfile, TRUE))) @@
               (2 :> update_goals(NewUser(
                        [age |-> 30, gender |-> "Male", height |-> 170,
                         weight |-> 70, activity_level |-> "Sedentary"], FALSE)))
    /\ foods = SeedFoods
    /\ food_logs = NoRows
    /\ \E totals \in ProgressTotals, goals \in ProgressGoals :
          daily_summaries = InsertSummary(NoRows, ProgressSummary(totals, goals))
    /\ response = Response("init", "success")
    /\ goals_custom = {}
    /\ reqs = [r \in Reqs |-> Idle]

\* summary.to_dict() of a stored row.
SummaryToDict ==
    /\ \E id \in DOMAIN daily_summaries : response' = to_dict(daily_summaries, id)
    /\ UNCHANGED <<users, foods, food_logs, daily_summaries, goals_custom, reqs>>

\* user.get_calorie_progress(date).
GetCalorieProgress ==
    /\ \E d \in Dates :
          response' = get_calorie_progress(daily_summaries, users[2], 2, d)
    /\ UNCHANGED <<users, foods, food_logs, daily_summaries, goals_custom, reqs>>

NextProgress == SummaryToDict \/ GetCalorieProgress

SpecProgress == InitProgress /\ [][NextProgress]_vars

----------------------------------------------------------------------------
(* The weekly chart: DailySummary.get_weekly_summary and /api/chart_data *)

\* The query without the upper end of the window.
get_weekly_summary_open_ended(summaries, user_id, start_date) ==
    LET rows   == {i \in DOMAIN summaries :
                      /\ summaries[i].user_id = user_id
                      /\ summaries[i].date >= start_date}
        byDate == {p \in rows \X rows : summaries[p[1]].date < summaries[p[2]].date}
    IN  Ordered(rows, byDate)

\* DailySummary.get_weekly_summary with a start date: the lists the query can
\* return, the rows of the user from start_date to start_date + 6 days by
\* ascending date.
get_weekly_summary(summaries, user_id, start_date) ==
    LET end_date == start_date + 6
        rows     == {i \in DOMAIN summaries :
                        /\ summaries[i].user_id = user_id
                        /\ summaries[i].date >= start_date
                        /\ summaries[i].date <= end_date}
        byDate   == {p \in rows \X rows : summaries[p[1]].date < summaries[p[2]].date}
    IN  Ordered(rows, byDate)

\* date.today() of the chart requests, in days, and the days on which the users
\* opened the dashboard before.
Today == 10
VisitDays == (1 :> {2, 8}) @@ (2 :> {1, 3, 8, 9, 10})

\* The days parameter of /api/chart_data: one day, the default week, and a
\* longer range.
ChartDays == {1, 7, 9}

InitWeekly ==
    /\ users = (1 :> update_goals(NewUser(AdminProfile, TRUE))) @@
               (2 :> update_goals(NewUser(
                        [age |-> 30, gender |-> "Male", height |-> 170,
                         weight |-> 70, activity_level |-> "Sedentary"], FALSE)))
    /\ foods = SeedFoods
    /\ food_logs = NoRows
    /\ daily_summaries = NoRows
    /\ response = Response("init", "success")
    /\ goals_custom = {}
    /\ reqs = [r \in Reqs |-> Idle]

\* GET /api/chart_data?days=: the summaries from today - (days - 1) on.
chart_data(u, days) ==
    LET end_date   == Today
        start_date == end_date - (days - 1)
    IN  /\ u \in DOMAIN users
        /\ \E summaries \in get_weekly_summary(daily_summaries, u, start_date) :
              response' = Found("chart_data", "success",
                                <<u, days, start_date>>, summaries)
        /\ UNCHANGED <<users, foods, food_logs, daily_summaries, goals_custom, reqs>>

WeeklyDashboardData ==
    \E u \in DOMAIN VisitDays : \E d \in VisitDays[u] : dashboard_data(u, d)

ChartData == \E u \in DOMAIN users, days \in ChartDays : chart_data(u, days)

NextWeekly == WeeklyDashboardData \/ ChartData

SpecWeekly == InitWeekly /\ [][NextWeekly]_vars

----------------------------------------------------------------------------
(* The form boundary of log_meal and edit_meal_log: one user submits forms *)
(* with fields left out, zero, negative or empty                           *)

\* The fields as request.form.get returns them: None for a field left out or
\* not a number, "" for a meal type left out.
BoundaryLogForms ==
    [food_id : {None, 0, 1, 2}, quantity_grams : {None, 0, 0 - 40, 40, 120},
     meal_type : {"", "Breakfast"}]
BoundaryEditForms ==
    [quantity_grams : {None, 0, 0 - 40, 40, 120}, meal_type : {"", "Breakfast"}]

BoundaryLogMeal ==
    \E form \in BoundaryLogForms, d \in RaceDates :
        log_meal(2, form.food_id, form.quantity_grams, form.meal_type, d)

BoundaryEditMealLog ==
    \E l \in 1..MaxLogs, form \in BoundaryEditForms :
        edit_meal_log(2, l, form.quantity_grams, form.meal_type)

BoundaryDeleteMealLog == \E l \in 1..MaxLogs : delete_meal_log(2, l)

NextBoundary == BoundaryLogMeal \/ BoundaryEditMealLog \/ BoundaryDeleteMealLog

SpecBoundary == Init /\ [][NextBoundary]_vars

----------------------------------------------------------------------------
(* Nutrition of a quantity: GET /api/food/<id>/nutrition, with the admin   *)
(* editing the foods                                                       *)

\* The quantity parameter: multiples of 10 g up to MaxQuantity and their
\* doubles, without the multiples of 50 g other than 100 and 200, at which a
\* product lies halfway between two tenths.
MaxQuantity == 100
NutritionQuantities ==
    {q \in 0..(2 * MaxQuantity) : q % 10 = 0 /\ (q % 50 # 0 \/ q % 100 = 0)}

\* The nutrition part of a response.
Nutrition(op, status, food_id, quantity_grams, nutrition) ==
    [op |-> op, status |-> status, food_id |-> food_id,
     quantity_grams |-> quantity_grams, nutrition |-> nutrition]

\* routes/api.py food_nutrition.
food_nutrition(food_id, quantity) ==
    /\ IF food_id \notin DOMAIN foods
       THEN response' = Response("food_nutrition", "not_found")
       ELSE IF quantity <= 0
       THEN response' = Response("food_nutrition", "error")
       ELSE response' = Nutrition("food_nutrition", "success", food_id, quantity,
                                  calculate_nutrition(foods[food_id], quantity))
    /\ UNCHANGED <<users, foods, food_logs, daily_summaries, goals_custom, reqs>>

FoodNutrition ==
    \E f \in FoodIds \cup {9}, q \in NutritionQuantities : food_nutrition(f, q)

NextNutrition == FoodNutrition \/ EditFood

SpecNutrition == Init /\ [][NextNutrition]_vars

----------------------------------------------------------------------------
(* BMR and TDEE of a profile: the goals page (routes/dashboard.py) *)

\* The stored profiles of user 2 examined: three spellings of Male and the two
\* other gender values, with weights, heights and ages one unit apart.
BmrProfiles ==
    [age : {30, 31}, gender : {"Male", "male", "MALE", "Female", "Other"},
     height : {170, 171}, weight : {70, 71}, activity_level : {"Sedentary"}]

InitBmr ==
    /\ \E profile \in BmrProfiles :
          users = (1 :> update_goals(NewUser(AdminProfile, TRUE))) @@
                  (2 :> update_goals(NewUser(profile, FALSE)))
    /\ foods = SeedFoods
    /\ food_logs = NoRows
    /\ daily_summaries = NoRows
    /\ response = Response("init", "success")
    /\ goals_custom = {}
    /\ reqs = [r \in Reqs |-> Idle]

\* routes/dashboard.py goals: the BMR and the TDEE shown for the user.
goals(u) ==
    /\ u \in DOMAIN users
    /\ response' = [op |-> "goals", status |-> "success", user_id |-> u,
                    bmr |-> calculate_bmr(users[u]),
                    tdee |-> calculate_tdee(users[u])]
    /\ UNCHANGED <<users, foods, food_logs, daily_summaries, goals_custom, reqs>>

Goals == \E u \in DOMAIN users : goals(u)

NextBmr == Goals \/ EditProfile

SpecBmr == InitBmr /\ [][NextBmr]_vars

----------------------------------------------------------------------------
(* Properties of the diary and of the food catalogue *)

\* round(per_100g * quantity_grams / 100, 1), in tenths.
Scaled(per_100g, quantity_grams) == Round(per_100g * quantity_grams, 100)

\* The summary row i carries exactly the sums and the count of the log rows ids.
TotalsMatch(summaries, i, logs, ids) ==
    /\ summaries[i].total_calories = SumOver(logs, ids, "calories_consumed")
    /\ summaries[i].total_protein = SumOver(logs, ids, "protein_consumed")
    /\ summaries[i].total_carbs = SumOver(logs, ids, "carbs_consumed")
    /\ summaries[i].total_fat = SumOver(logs, ids, "fat_consumed")
    /\ summaries[i].meals_logged = Cardinality(ids)

\* C1: after any sequence of completed log_meal, edit_meal_log and
\* delete_meal_log requests, every (user, date) that has logs has a summary, and
\* every summary's four totals are the sums of the consumed fields of the logs
\* of its user and date and its meals_logged is their number.
C1_SummaryEqualsLogs ==
    \A u \in DOMAIN users, d \in Dates :
        /\ LogsOf(food_logs, u, d) # {} => SummariesOf(daily_summaries, u, d) # {}
        /\ \A i \in SummariesOf(daily_summaries, u, d) :
               TotalsMatch(daily_summaries, i, food_logs, LogsOf(food_logs, u, d))

\* C1 witness: an edit has just completed on a date that holds two logs, and the
\* summary counts both.
C1_Witness ==
    /\ response = Response("edit_meal_log", "success")
    /\ \E u \in DOMAIN users, d \in Dates :
           /\ Cardinality(LogsOf(food_logs, u, d)) = 2
           /\ \E i \in SummariesOf(daily_summaries, u, d) :
                  /\ daily_summaries[i].meals_logged = 2
                  /\ daily_summaries[i].total_calories > 0

\* C5: every step that creates or changes a FoodLog row leaves its four
\* consumed fields equal to the food's per-100g values at that write scaled by
\* the row's new quantity_grams / 100 and rounded to one decimal; quantity and
\* consumed fields never change one without the other.
C5_ConsumedDerivedAtWrite ==
    [][\A l \in DOMAIN food_logs' :
          (l \notin DOMAIN food_logs \/ food_logs'[l] # food_logs[l]) =>
              LET log  == food_logs'[l]
                  food == foods[log.food_id]
              IN  /\ log.calories_consumed =
                         Scaled(food.calories_per_100g, log.quantity_grams)
                  /\ log.protein_consumed =
                         Scaled(food.protein_per_100g, log.quantity_grams)
                  /\ log.carbs_consumed =
                         Scaled(food.carbs_per_100g, log.quantity_grams)
                  /\ log.fat_consumed =
                         Scaled(food.fat_per_100g, log.quantity_grams)]_vars

\* C5 witness: food 1 was edited by the admin, and a log of food 1 was then
\* edited to 120 g: it carries the nutrients of the new per-100g values.
C5_Witness ==
    /\ response = Response("edit_meal_log", "success")
    /\ 1 \in DOMAIN foods
    /\ foods[1] # SeedFoods[1]
    /\ \E l \in DOMAIN food_logs :
           /\ food_logs[l].food_id = 1
           /\ food_logs[l].quantity_grams = 120
           /\ food_logs[l].calories_consumed = Scaled(foods[1].calories_per_100g, 120)
           /\ food_logs[l].calories_consumed # Scaled(SeedFoods[1].calories_per_100g, 120)

\* C10: admin_delete_food on a food referenced by at least one FoodLog answers
\* with an error and leaves foods and food logs as they were; whenever a step
\* removes a Food row, no log referenced it and no log row is removed with it.
C10_DeleteFoodRefused ==
    [][/\ \A u \in DOMAIN users, f \in FoodIds :
             (admin_delete_food(u, f) /\ log_count(food_logs, f) > 0) =>
                 /\ response'.status # "success"
                 /\ foods' = foods
                 /\ food_logs' = food_logs
       /\ \A f \in DOMAIN foods \ DOMAIN foods' :
             /\ log_count(food_logs, f) = 0
             /\ food_logs' = food_logs]_vars

\* C10 witness: the admin's delete of food 2 was refused while a log refers to it.
C10_Witness ==
    /\ response = Response("admin_delete_food", "error")
    /\ 2 \in DOMAIN foods
    /\ log_count(food_logs, 2) > 0

\* C10 witness of the other case: food 2 was deleted while food 1 has logs.
C10_DeletedWitness ==
    /\ response = Response("admin_delete_food", "success")
    /\ 2 \notin DOMAIN foods
    /\ log_count(food_logs, 1) > 0

----------------------------------------------------------------------------
(* Properties of the goals *)

\* The macro goals are the targets of the stored calorie goal: calories * 0.25 / 4,
\* calories * 0.45 / 4 and calories * 0.30 / 9, each to one decimal.
MacroConsistent(user) ==
    /\ user.protein_goal = Round(user.daily_calorie_goal * 25, 100 * 4)
    /\ user.carb_goal = Round(user.daily_calorie_goal * 45, 100 * 4)
    /\ user.fat_goal = Round(user.daily_calorie_goal * 30, 100 * 9)

\* The calorie goal is the TDEE of the stored profile rounded to a whole number.
CaloriesFromProfile(user) ==
    user.daily_calorie_goal = 10 * Round(calculate_tdee(user), 100000)

\* C8: a user whose goals were last written by register or edit_profile has
\* daily_calorie_goal equal to the rounded TDEE of the stored weight, height,
\* age, gender and activity level, and macro goals equal to the macro targets
\* of that calorie goal, whatever profile edits came before.
C8_GoalsNeverStale ==
    \A u \in DOMAIN users :
        u \notin goals_custom =>
            /\ CaloriesFromProfile(users[u])
            /\ MacroConsistent(users[u])

\* C8 witness: user 2 has just edited the profile to one that differs from the
\* one registered with.
C8_Witness ==
    /\ response = Response("edit_profile", "success")
    /\ 2 \notin goals_custom
    /\ users[2].weight = 60
    /\ users[2].daily_calorie_goal = 22670

\* C9 as claimed: in every reachable state the macro goals of every user are
\* consistent with daily_calorie_goal under the fixed ratios, also after
\* /user/goals/update requests.
C9_MacrosConsistentAlways ==
    \A u \in DOMAIN users :
        Truthy(users[u].daily_calorie_goal) => MacroConsistent(users[u])

\* C9 amended: the macro goals are consistent with daily_calorie_goal under the
\* fixed ratios for every user whose goals were last written by register or
\* edit_profile; /user/goals/update stores the submitted values as they are.
C9_MacrosConsistentWhenComputed ==
    \A u \in DOMAIN users :
        (Truthy(users[u].daily_calorie_goal) /\ u \notin goals_custom) =>
            MacroConsistent(users[u])

\* C9 witness: user 3 registered, set custom goals and then edited the profile,
\* which recomputed the goals.
C9_Witness ==
    /\ 3 \in DOMAIN users
    /\ 3 \notin goals_custom
    /\ response = Response("edit_profile", "success")
    /\ users[3].daily_calorie_goal \notin {15000, 22000}
    /\ \E u \in goals_custom : ~MacroConsistent(users[u])

----------------------------------------------------------------------------
(* Properties of concurrent requests and of update_from_logs *)

\* The request of slot r is a log create, edit or delete.
LogWriter(r) == reqs[r].kind \in {"log_meal", "edit_meal_log", "delete_meal_log"}

\* Both requests were log writes and both have returned without an error.
BothDone == \A r \in Reqs : LogWriter(r) /\ reqs[r].pc = "done"

\* The user and date have a summary, and each of their summaries carries the
\* sums and the count of their logs.
SummaryMatchesLogs(u, d) ==
    /\ SummariesOf(daily_summaries, u, d) # {}
    /\ \A i \in SummariesOf(daily_summaries, u, d) :
           TotalsMatch(daily_summaries, i, food_logs, LogsOf(food_logs, u, d))

\* C2: when each update_from_logs reads the logs and writes the summary row as
\* one serialized step, then once two concurrent log writes on one user and
\* date have both finished, the summary totals are the sums over all logs of
\* that date.
C2_SerializedUpdateMatches ==
    BothDone => \A u \in RaceUsers, d \in RaceDates : SummaryMatchesLogs(u, d)

\* C2 witness: two log writes have finished, one committed its log while the
\* other was inside update_from_logs, both log changes are stored and the
\* summary counts the two logs.
C2_Witness ==
    /\ BothDone
    /\ \E r \in Reqs : reqs[r].raced
    /\ \A r \in Reqs : reqs[r].log_written
    /\ \E u \in RaceUsers, d \in RaceDates :
           /\ Cardinality(LogsOf(food_logs, u, d)) = 2
           /\ SummaryMatchesLogs(u, d)

\* C3 as claimed: when two log writes race and their update_from_logs calls
\* interleave step by step, then once both are done the stored totals are those
\* the call that committed last computed, and they are the sums of the logs
\* that exist for the date.
C3_LastUpdateWinsSafely ==
    \A r \in Reqs :
        (BothDone /\ reqs[r].last) =>
            \A i \in SummariesOf(daily_summaries, reqs[r].user_id, reqs[r].date) :
                /\ \A f \in DOMAIN ZeroTotals :
                       daily_summaries[i][f] = reqs[r].totals[f]
                /\ TotalsMatch(daily_summaries, i, food_logs,
                       LogsOf(food_logs, reqs[r].user_id, reqs[r].date))

\* C4: update_from_logs is idempotent.  In every state and for every user and
\* date, a second call right after a first leaves the totals and meals_logged
\* of every summary as the first call left them and adds no summary row.
C4_UpdateFromLogsIdempotent ==
    \A u \in DOMAIN users, d \in Dates :
        LET once  == update_from_logs(daily_summaries, food_logs, users, u, d)
            twice == update_from_logs(once, food_logs, users, u, d)
        IN  /\ DOMAIN twice = DOMAIN once
            /\ \A i \in DOMAIN once :
                   \A f \in DOMAIN ZeroTotals : twice[i][f] = once[i][f]

\* C4 witness: the summary of a date with logs is out of date, so that the
\* first call changes its totals, and the second call changes nothing more.
C4_Witness ==
    \E u \in RaceUsers, d \in RaceDates :
        LET once == update_from_logs(daily_summaries, food_logs, users, u, d)
        IN  /\ LogsOf(food_logs, u, d) # {}
            /\ SummariesOf(daily_summaries, u, d) # {}
            /\ once # daily_summaries
            /\ update_from_logs(once, food_logs, users, u, d) = once

\* C6 as claimed: a log create, edit or delete whose log change was committed
\* and whose summary recomputation then failed leaves, once no request is in
\* flight, a summary that reflects the logs.
C6_FailedRecomputeConsistent ==
    \A r \in Reqs :
        (/\ reqs[r].pc = "failed"
         /\ reqs[r].log_written
         /\ \A o \in Reqs : ~InFlight(o)) =>
            SummaryMatchesLogs(reqs[r].user_id, reqs[r].date)

\* C7: in every state there is at most one DailySummary row per user and date,
\* also when two requests both found none and both go on to insert one.
C7_OneSummaryPerUserDate ==
    \A u \in DOMAIN users, d \in Dates :
        Cardinality(SummariesOf(daily_summaries, u, d)) <= 1

\* C7 witness: a request that had found no summary was refused its insert,
\* because the other request inserted first; the user and date have one row.
C7_Witness ==
    \E r \in Reqs :
        /\ reqs[r].error = "IntegrityError"
        /\ Cardinality(SummariesOf(daily_summaries, reqs[r].user_id,
                                   reqs[r].date)) = 1

----------------------------------------------------------------------------
(* Properties of DailySummary.get_or_create and update_from_logs *)

\* C11: a missing entity is signalled, never defaulted.  log_meal naming a
\* food_id that has no Food row answers with an error, stores no FoodLog and
\* changes no DailySummary; get_or_create and update_from_logs for a user id
\* that has no User row and no summary of the date raise and store no
\* DailySummary.
C11_MissingEntitySignalled ==
    [][/\ \A form \in SummaryLogForms, d \in RaceDates :
              (/\ form.food_id \notin DOMAIN foods
               /\ log_meal(2, form.food_id, form.quantity_grams, form.meal_type, d))
              => /\ response'.status = "error"
                 /\ UNCHANGED <<food_logs, daily_summaries>>
       /\ \A u \in SummaryCallers, d \in Dates :
              (/\ u \notin DOMAIN users
               /\ SummariesOf(daily_summaries, u, d) = {}
               /\ call_get_or_create(u, d) \/ call_update_from_logs(u, d))
              => /\ response'.status = "error"
                 /\ UNCHANGED daily_summaries]_vars

\* C11 witness: update_from_logs was called for user 3, who has no row, while
\* user 2 has a log and a summary; it raised and user 3 has no summary.
C11_Witness ==
    /\ response = Response("update_from_logs", "error")
    /\ 3 \notin DOMAIN users
    /\ food_logs # NoRows
    /\ \A d \in Dates : SummariesOf(daily_summaries, 3, d) = {}

\* log_meal has just been refused for a food that has no row, with logs stored.
C11_FoodWitness ==
    /\ response = Response("log_meal", "error")
    /\ food_logs # NoRows

\* A goal value, or the default where the user has none set.
GoalOrDefault(goal, default) == IF goal = None THEN default ELSE goal

\* The summary row carries the user's goals, with 2000 / 50 / 200 / 65 where
\* the user has none.
GoalsCopied(row, user) ==
    /\ row.calorie_goal = GoalOrDefault(user.daily_calorie_goal, 20000)
    /\ row.protein_goal = GoalOrDefault(user.protein_goal, 500)
    /\ row.carb_goal = GoalOrDefault(user.carb_goal, 2000)
    /\ row.fat_goal = GoalOrDefault(user.fat_goal, 650)

\* C12: get_or_create for a user that exists leaves an existing summary of the
\* date as it is; otherwise it adds exactly one row, with the four totals and
\* meals_logged 0 and the goals copied from the user, 2000, 50, 200 and 65
\* standing in for each goal the user has not set.
C12_GetOrCreate ==
    [][\A u \in SummaryCallers, d \in Dates :
          (u \in DOMAIN users /\ call_get_or_create(u, d)) =>
              IF SummariesOf(daily_summaries, u, d) # {}
              THEN daily_summaries' = daily_summaries
              ELSE \E i \in SummariesOf(daily_summaries', u, d) :
                      /\ DOMAIN daily_summaries' = DOMAIN daily_summaries \cup {i}
                      /\ \A j \in DOMAIN daily_summaries :
                             daily_summaries'[j] = daily_summaries[j]
                      /\ \A f \in DOMAIN ZeroTotals : daily_summaries'[i][f] = 0
                      /\ GoalsCopied(daily_summaries'[i], users[u])]_vars

\* C12 witness: get_or_create has created summaries for user 2, one while the
\* user had no goals set (defaults) and one after goals were stored (copies).
C12_Witness ==
    /\ response = Response("get_or_create", "success")
    /\ \E i \in DOMAIN daily_summaries :
           /\ daily_summaries[i].user_id = 2
           /\ daily_summaries[i].calorie_goal = 20000
           /\ daily_summaries[i].fat_goal = 650
    /\ \E i \in DOMAIN daily_summaries :
           /\ daily_summaries[i].user_id = 2
           /\ daily_summaries[i].calorie_goal = 22000
           /\ daily_summaries[i].total_calories = 0

\* C13 as claimed: after update_from_logs(user, date) the goals of the summary
\* are the user's goal values at that call, also when the user's goals changed
\* after the row was created.
C13_GoalsAtAggregationTime ==
    [][\A u \in SummaryCallers, d \in Dates :
          (u \in DOMAIN users /\ call_update_from_logs(u, d)) =>
              \A i \in SummariesOf(daily_summaries', u, d) :
                  GoalsCopied(daily_summaries'[i], users[u])]_vars

----------------------------------------------------------------------------
(* Properties of suitability, recommendations and search *)

\* The active foods of the four preferred categories that are suitable for the
\* user.
SuitablePreferred(user) ==
    {id \in DOMAIN foods :
        /\ foods[id].is_active
        /\ foods[id].category \in
               {"South Indian", "Dal & Lentils", "Rice & Grains", "Vegetables"}
        /\ is_suitable_for_user(foods[id], user)}

\* C14: get_recommended_for_user returns at most limit foods, and each of them
\* is active and passes is_suitable_for_user for the user, for every meal type
\* (or none) and every limit >= 0.
C14_RecommendedSuitable ==
    response.op = "recommendations" =>
        /\ Len(response.result) <= response.args[3]
        /\ \A id \in Range(response.result) :
               /\ foods[id].is_active
               /\ is_suitable_for_user(foods[id], users[response.args[1]])

\* C14 witness: a diabetic user with disliked foods asked for 3 foods, more
\* than 3 candidates exist and 3 were returned.
C14_Witness ==
    /\ response.op = "recommendations"
    /\ response.args[3] = 3
    /\ Len(response.result) = 3
    /\ users[2].is_diabetic
    /\ users[2].disliked_foods # {}
    /\ Cardinality(Candidates(foods, users[2], response.args[2])) > 3

\* C15 as claimed: if at least limit active foods of the preferred categories
\* are suitable for the user, the result holds no food of another category,
\* whatever the meal type.
C15_NoFallbackWhenEnoughSuitable ==
    response.op = "recommendations" =>
        (Cardinality(SuitablePreferred(users[response.args[1]])) >= response.args[3]
            => \A id \in Range(response.result) :
                   id \in SuitablePreferred(users[response.args[1]]))

\* C15 amended: if at least limit active foods of the preferred categories are
\* suitable for the user and pass the pre-filter of the meal type, the result
\* holds no food of another category.
C15_NoFallbackWhenEnoughCandidates ==
    response.op = "recommendations" =>
        LET enough == {id \in SuitablePreferred(users[response.args[1]]) :
                          MealFilter(foods[id], response.args[2])}
        IN  Cardinality(enough) >= response.args[3]
                => \A id \in Range(response.result) : id \in enough

\* C15 witness: for lunch with limit 3 a user has four suitable preferred foods,
\* three of which pass the protein filter, and other candidates exist; the three
\* are returned.
C15_Witness ==
    /\ response.op = "recommendations"
    /\ response.args[2] = "LUNCH"
    /\ response.args[3] = 3
    /\ Cardinality(SuitablePreferred(users[2])) = 4
    /\ Range(response.result) = {id \in SuitablePreferred(users[2]) :
                                    MealFilter(foods[id], "LUNCH")}
    /\ Cardinality(Candidates(foods, users[2], "LUNCH")) > 3

\* C16: is_suitable_for_user is true exactly when the food type fits the
\* preference (Vegetarian: only Vegetarian; Eggetarian: not Non-Vegetarian),
\* the user is not diabetic or the GI is unknown or at most 55, and the food is
\* not among the user's disliked ids.
C16_SuitableExactly ==
    \A id \in DOMAIN foods, u \in DOMAIN users :
        is_suitable_for_user(foods[id], users[u]) <=>
            /\ users[u].food_preferences = "Vegetarian" =>
                   foods[id].food_type = "Vegetarian"
            /\ users[u].food_preferences = "Eggetarian" =>
                   foods[id].food_type # "Non-Vegetarian"
            /\ \/ ~users[u].is_diabetic
               \/ foods[id].gi_index = None
               \/ foods[id].gi_index <= 55
            /\ id \notin users[u].disliked_foods

\* C16 witness: a search by a diabetic user who dislikes Dal Tadka returned
\* Water, whose GI is unknown, and neither Dal Tadka nor Gulab Jamun (GI 85);
\* Biryani (Chicken) is not suitable for the vegetarian admin.
C16_Witness ==
    /\ response.op = "search_foods"
    /\ users[2].is_diabetic
    /\ 2 \in users[2].disliked_foods
    /\ 8 \in Range(response.result)
    /\ 2 \notin Range(response.result)
    /\ 7 \notin Range(response.result)
    /\ ~is_suitable_for_user(foods[3], users[1])

\* C19: a search with a user returns exactly the suitable foods among the first
\* limit active matches in ascending name order, in name order; so it has at
\* most limit foods.
C19_SearchLimitThenFilter ==
    (response.op = "search_foods" /\ response.status = "success") =>
        LET user    == users[response.args[1]]
            limit   == response.args[4]
            result  == response.result
            matches == SearchMatches(foods, response.args[2], "", response.args[3])
            Place(id) == 1 + Cardinality({m \in matches :
                             NameIndex(foods[m].name) < NameIndex(foods[id].name)})
        IN  /\ Range(result) = {id \in matches :
                                   /\ Place(id) <= limit
                                   /\ is_suitable_for_user(foods[id], user)}
            /\ \A i, j \in 1..Len(result) :
                   i < j => NameIndex(foods[result[i]].name)
                              < NameIndex(foods[result[j]].name)
            /\ Len(result) <= limit

\* C19 witness: the search returned fewer foods than the limit while a suitable
\* match exists beyond the first limit matches.
C19_Witness ==
    /\ response.op = "search_foods"
    /\ response.status = "success"
    /\ Len(response.result) < response.args[4]
    /\ \E id \in SearchMatches(foods, response.args[2], "", response.args[3]) :
           /\ is_suitable_for_user(foods[id], users[response.args[1]])
           /\ id \notin Range(response.result)

----------------------------------------------------------------------------
(* Properties of the progress values *)

\* pct, in tenths of a percent, is total / goal * 100 rounded to 1 decimal:
\* no other tenth is nearer.  For a goal of 0 it is 0.
IsPercentage(pct, total, goal) ==
    IF goal = 0 THEN pct = 0
    ELSE /\ 2 * (pct * goal - 1000 * total) <= goal
         /\ 2 * (1000 * total - pct * goal) <= goal

\* C17: each percentage of a DailySummary is consumed / goal * 100 rounded to 1
\* decimal and 0 when the goal is 0, and calories_remaining is
\* max(0, calorie_goal - total_calories), never negative; get_calorie_progress
\* reports the same percentage and remainder for the summary of the date.
C17_ProgressValues ==
    /\ response.op = "to_dict" =>
           LET summary == daily_summaries[response.id]
           IN  /\ IsPercentage(response.calorie_percentage,
                               summary.total_calories, summary.calorie_goal)
               /\ IsPercentage(response.protein_percentage,
                               summary.total_protein, summary.protein_goal)
               /\ IsPercentage(response.carb_percentage,
                               summary.total_carbs, summary.carb_goal)
               /\ IsPercentage(response.fat_percentage,
                               summary.total_fat, summary.fat_goal)
               /\ response.calories_remaining >= 0
               /\ response.calories_remaining =
                      (IF summary.total_calories >= summary.calorie_goal THEN 0
                       ELSE summary.calorie_goal - summary.total_calories)
    /\ (/\ response.op = "get_calorie_progress"
        /\ SummariesOf(daily_summaries, response.user_id, response.date) # {}) =>
           LET summary == daily_summaries[FirstSummary(daily_summaries,
                              response.user_id, response.date)]
           IN  /\ IsPercentage(response.percentage,
                               summary.total_calories, summary.calorie_goal)
               /\ response.remaining >= 0
               /\ response.remaining =
                      (IF summary.total_calories >= summary.calorie_goal THEN 0
                       ELSE summary.calorie_goal - summary.total_calories)

\* C17 witness: Scenario C, 1200 kcal against a goal of 2000, gives 60.0 percent
\* and 800 remaining, and the protein goal of 0 gives 0 percent of protein
\* although protein was eaten.
C17_Witness ==
    /\ response.op = "to_dict"
    /\ daily_summaries[response.id].total_calories = 12000
    /\ daily_summaries[response.id].calorie_goal = 20000
    /\ response.calorie_percentage = 600
    /\ response.calories_remaining = 8000
    /\ daily_summaries[response.id].protein_goal = 0
    /\ daily_summaries[response.id].total_protein = 41
    /\ response.protein_percentage = 0

\* Consumption above the goal leaves 0 remaining in both reports.
C17_ExceededWitness ==
    /\ response.op = "get_calorie_progress"
    /\ \E id \in DOMAIN daily_summaries :
          /\ daily_summaries[id].total_calories = 25000
          /\ daily_summaries[id].calorie_goal = 20000
          /\ id[2] = response.date
    /\ response.remaining = 0
    /\ response.percentage = 1250

----------------------------------------------------------------------------
(* Properties of the weekly summary *)

\* C18: get_weekly_summary(user, start_date) returns exactly the existing
\* summaries of the user dated from start_date to start_date + 6, in strictly
\* ascending date order: no row for a date without a summary, no row outside
\* the window and no row of another user, whatever days the caller asked for.
C18_WeeklyWindow ==
    response.op = "chart_data" =>
        LET u          == response.args[1]
            start_date == response.args[3]
            result     == response.result
        IN  /\ Range(result) =
                   {i \in DOMAIN daily_summaries :
                       /\ daily_summaries[i].user_id = u
                       /\ daily_summaries[i].date \in start_date..(start_date + 6)}
            /\ \A i, j \in 1..Len(result) :
                   i < j => daily_summaries[result[i]].date
                              < daily_summaries[result[j]].date

\* C18 witness: a chart over 9 days returned the two summaries of the user in
\* the 7 days from the start, not the summary of today, which exists, and not
\* the one of the other user inside the window.
C18_Witness ==
    /\ response.op = "chart_data"
    /\ response.args = <<2, 9, 2>>
    /\ Len(response.result) = 2
    /\ \E i \in DOMAIN daily_summaries :
          daily_summaries[i].user_id = 2 /\ daily_summaries[i].date = Today
    /\ \E i \in DOMAIN daily_summaries :
          daily_summaries[i].user_id = 1 /\ daily_summaries[i].date = 8

----------------------------------------------------------------------------
(* Properties of the form boundary *)

\* A quantity that is missing or not positive.
InvalidQuantity(quantity_grams) == quantity_grams = None \/ quantity_grams <= 0

\* C20: log_meal with a missing food_id, a missing or non-positive quantity or
\* an empty meal_type, and edit_meal_log of an own log with a missing or
\* non-positive quantity or an empty meal_type, answer with an error and change
\* no FoodLog and no DailySummary; every stored FoodLog has quantity_grams > 0.
C20_InvalidInputRejected ==
    /\ [](\A l \in DOMAIN food_logs : food_logs[l].quantity_grams > 0)
    /\ [][/\ \A form \in BoundaryLogForms, d \in RaceDates :
                 (/\ \/ form.food_id \in {None, 0}
                     \/ InvalidQuantity(form.quantity_grams)
                     \/ form.meal_type = ""
                  /\ log_meal(2, form.food_id, form.quantity_grams,
                              form.meal_type, d))
                 => /\ response' = Response("log_meal", "error")
                    /\ UNCHANGED <<food_logs, daily_summaries>>
          /\ \A l \in DOMAIN food_logs, form \in BoundaryEditForms :
                 (/\ InvalidQuantity(form.quantity_grams) \/ form.meal_type = ""
                  /\ edit_meal_log(2, l, form.quantity_grams, form.meal_type))
                 => /\ response' = Response("edit_meal_log", "error")
                    /\ UNCHANGED <<food_logs, daily_summaries>>]_vars

\* C20 witness: an edit was refused while two logs and their summary exist.
C20_Witness ==
    /\ response = Response("edit_meal_log", "error")
    /\ Cardinality(DOMAIN food_logs) = 2
    /\ daily_summaries # NoRows
    /\ \A l \in DOMAIN food_logs : food_logs[l].quantity_grams > 0

\* A log_meal was refused while a log exists.
C20_LogWitness ==
    /\ response = Response("log_meal", "error")
    /\ food_logs # NoRows

----------------------------------------------------------------------------
(* Properties of calculate_nutrition *)

NutritionFields == {"calories", "protein", "carbs", "fat", "fiber"}

\* The per-100g column of a field of the nutrition dict.
Per100g(food, field) ==
    CASE field = "calories" -> food.calories_per_100g
      [] field = "protein"  -> food.protein_per_100g
      [] field = "carbs"    -> food.carbs_per_100g
      [] field = "fat"      -> food.fat_per_100g
      [] field = "fiber"    -> food.fiber_per_100g

\* C21 as claimed: each field of calculate_nutrition(2x) is twice the field of
\* calculate_nutrition(x), and calculate_nutrition(100) returns the per-100g
\* values.
C21_LinearInQuantity ==
    (response.op = "food_nutrition" /\ response.status = "success") =>
        LET food == foods[response.food_id]
            x    == response.quantity_grams
        IN  /\ \A field \in NutritionFields :
                   calculate_nutrition(food, 2 * x)[field]
                       = 2 * response.nutrition[field]
            /\ x = 100 => \A field \in NutritionFields :
                              response.nutrition[field] = Per100g(food, field)

\* C21 amended: each field of calculate_nutrition(x) is within 0.05 of
\* per_100g * x / 100, so the field of calculate_nutrition(2x) and twice the
\* field of calculate_nutrition(x) differ by at most 0.1, and
\* calculate_nutrition(100) returns the per-100g values.
C21_LinearWithinRounding ==
    (response.op = "food_nutrition" /\ response.status = "success") =>
        LET food == foods[response.food_id]
            x    == response.quantity_grams
        IN  /\ \A field \in NutritionFields :
                   LET exact == Per100g(food, field) * x
                       double == calculate_nutrition(food, 2 * x)[field]
                       twice  == 2 * response.nutrition[field]
                   IN  /\ 100 * response.nutrition[field] - exact <= 50
                       /\ exact - 100 * response.nutrition[field] <= 50
                       /\ double - twice <= 1
                       /\ twice - double <= 1
            /\ x = 100 => \A field \in NutritionFields :
                              response.nutrition[field] = Per100g(food, field)

\* C21 witness: 40 g of Basmati rice (fiber 0.4) has 0.2 g of fiber and the doubled
\* quantity 80 g has 0.3 g, not twice 0.2 g.
C21_Witness ==
    /\ response.op = "food_nutrition"
    /\ response.status = "success"
    /\ response.food_id = 1
    /\ foods[1] = SeedFoods[1]
    /\ response.quantity_grams = 40
    /\ response.nutrition.fiber = 2
    /\ calculate_nutrition(foods[1], 80).fiber = 3

\* The nutrition of 100 g is the row's per-100g values.
C21_HundredWitness ==
    /\ response.op = "food_nutrition"
    /\ response.status = "success"
    /\ response.quantity_grams = 100
    /\ response.nutrition.protein = foods[response.food_id].protein_per_100g

----------------------------------------------------------------------------
(* Properties of calculate_bmr *)

\* C22: for the same weight, height and age the BMR of gender Male, in any
\* letter case, is 166 above the BMR of Female and of Other, which are equal;
\* the BMR rises with weight and with height and falls with age.
C22_BmrByGender ==
    response.op = "goals" =>
        LET user == users[response.user_id]
            As(gender) == calculate_bmr([user EXCEPT !.gender = gender])
        IN  /\ \A gender \in {"Male", "male", "MALE"} :
                   /\ As(gender) - As("Female") = 16600
                   /\ As(gender) - As("Other") = 16600
            /\ As("Female") = As("Other")
            /\ response.bmr = (IF user.gender \in {"Male", "male", "MALE"}
                               THEN As("Female") + 16600 ELSE As("Female"))
            /\ calculate_bmr([user EXCEPT !.weight = @ + 1]) > response.bmr
            /\ calculate_bmr([user EXCEPT !.height = @ + 1]) > response.bmr
            /\ calculate_bmr([user EXCEPT !.age = @ + 1]) < response.bmr

\* C22 witness: the goals page of a user stored as MALE, 70 kg, 170 cm, 30
\* years shows the BMR 1617.5.
C22_Witness ==
    /\ response.op = "goals"
    /\ response.user_id = 2
    /\ users[2].gender = "MALE"
    /\ users[2].weight = 70 /\ users[2].height = 170 /\ users[2].age = 30
    /\ response.bmr = 161750

----------------------------------------------------------------------------
(* Properties of the life of a summary *)

\* C23: no log_meal, edit_meal_log, delete_meal_log, get_or_create or
\* update_from_logs removes a DailySummary, and after the delete of the last
\* log of a date the summary of the date exists with all totals 0 and
\* meals_logged 0.
C23_SummaryNeverRemoved ==
    [][/\ \A i \in DOMAIN daily_summaries : i \in DOMAIN daily_summaries'
       /\ \A l \in DOMAIN food_logs :
              (/\ delete_meal_log(2, l)
               /\ food_logs[l].user_id = 2
               /\ LogsOf(food_logs', 2, food_logs[l].date_logged) = {})
              => /\ SummariesOf(daily_summaries', 2, food_logs[l].date_logged) # {}
                 /\ \A i \in SummariesOf(daily_summaries', 2,
                                         food_logs[l].date_logged) :
                        /\ daily_summaries'[i].total_calories = 0
                        /\ daily_summaries'[i].total_protein = 0
                        /\ daily_summaries'[i].total_carbs = 0
                        /\ daily_summaries'[i].total_fat = 0
                        /\ daily_summaries'[i].meals_logged = 0]_vars

\* C23 witness: a log was deleted, no log is left and the summary of the date
\* is there with zero totals.
C23_Witness ==
    /\ response = Response("delete_meal_log", "success")
    /\ food_logs = NoRows
    /\ \E i \in SummariesOf(daily_summaries, 2, 1) :
          /\ daily_summaries[i].total_calories = 0
          /\ daily_summaries[i].meals_logged = 0

----------------------------------------------------------------------------
(* Properties of the ranking *)

\* The four preferred categories in their order of priority.
PreferredRank ==
    ("South Indian" :> 1) @@ ("Dal & Lentils" :> 2) @@ ("Rice & Grains" :> 3)
    @@ ("Vegetables" :> 4)

\* protein / calories of a is at least that of b, a food without calories
\* counting as density 0.
DensityAtLeast(a, b) ==
    IF b.calories_per_100g = 0 THEN TRUE
    ELSE IF a.calories_per_100g = 0 THEN b.protein_per_100g = 0
    ELSE a.protein_per_100g * b.calories_per_100g
           >= b.protein_per_100g * a.calories_per_100g

\* C24: in the list recommend returns, the preferred-category foods come first,
\* ordered by category rank and within a category by descending
\* protein/calories; foods of other categories appear only when fewer than
\* limit preferred candidates exist, are ordered by descending
\* protein/calories, and the length is min(limit, number of candidates).
C24_RecommendOrder ==
    response.op = "recommendations" =>
        LET result     == response.result
            limit      == response.args[3]
            candidates == Candidates(foods, users[response.args[1]], response.args[2])
            Preferred(id) == foods[id].category \in DOMAIN PreferredRank
            Rank(id)   == PreferredRank[foods[id].category]
        IN  /\ \A i, j \in 1..Len(result) :
                   i < j =>
                       /\ Preferred(result[j]) => Preferred(result[i])
                       /\ Preferred(result[j]) =>
                              /\ Rank(result[i]) <= Rank(result[j])
                              /\ Rank(result[i]) = Rank(result[j]) =>
                                     DensityAtLeast(foods[result[i]], foods[result[j]])
                       /\ ~Preferred(result[i]) =>
                              DensityAtLeast(foods[result[i]], foods[result[j]])
            /\ (\E i \in 1..Len(result) : ~Preferred(result[i])) =>
                   Cardinality({id \in candidates : Preferred(id)}) < limit
            /\ Len(result) = (IF limit <= Cardinality(candidates) THEN limit
                              ELSE Cardinality(candidates))
            /\ Cardinality(Range(result)) = Len(result)

\* C24 witness: ten foods were asked for; the list starts with three South
\* Indian foods by descending density (Sambhar, Rasam, Upma), goes on with
\* the other preferred categories and ends with two back-filled foods.
C24_Witness ==
    /\ response.op = "recommendations"
    /\ response.args[3] = 10
    /\ Len(response.result) >= 8
    /\ SubSeq(response.result, 1, 4) = <<9, 10, 1, 2>>
    /\ foods[response.result[Len(response.result)]].category
           \notin DOMAIN PreferredRank
    /\ foods[response.result[Len(response.result) - 1]].category
           \notin DOMAIN PreferredRank

\* C25: with a meal type, every food recommend returns, back-filled or not,
\* passes the pre-filter of the meal group, the meal type compared without
\* regard to case; another meal type, or none, excludes no food.
C25_MealFilterOnAll ==
    response.op = "recommendations" =>
        LET result    == response.result
            meal_type == response.args[2]
            limit     == response.args[3]
            user      == users[response.args[1]]
            suitable  == {id \in DOMAIN foods :
                             foods[id].is_active
                             /\ is_suitable_for_user(foods[id], user)}
        IN  /\ meal_type \in {"Breakfast", "breakfast", "Mid-Morning"} =>
                   \A id \in Range(result) : foods[id].fiber_per_100g >= 15
            /\ meal_type \in {"Lunch", "LUNCH", "Dinner"} =>
                   \A id \in Range(result) : foods[id].protein_per_100g >= 30
            /\ meal_type \in {"Evening Snack", "Late Night"} =>
                   \A id \in Range(result) : foods[id].calories_per_100g <= 2500
            /\ meal_type \in {"", "Brunch"} =>
                   /\ Range(result) \subseteq suitable
                   /\ Len(result) = (IF limit <= Cardinality(suitable) THEN limit
                                     ELSE Cardinality(suitable))

\* C25 witness: a lunch list was back-filled with Chicken Curry, which has
\* protein >= 3, while Water, a candidate without the meal type, is left out.
C25_Witness ==
    /\ response.op = "recommendations"
    /\ response.args[2] = "LUNCH"
    /\ response.args[3] = 10
    /\ 6 \in Range(response.result)
    /\ 8 \notin Range(response.result)
    /\ 8 \in Candidates(foods, users[response.args[1]], "")
    /\ \A id \in Range(response.result) : foods[id].protein_per_100g >= 30

\* C26: a candidate without calories does not make recommend fail; it comes
\* after every food of its category rank (after every other food of the
\* back-fill) that has calories, and get_nutrition_density returns 0 for it.
C26_ZeroCaloriesLast ==
    /\ response.op = "recommendations" =>
           /\ response.status = "success"
           /\ \A i, j \in 1..Len(response.result) :
                  (/\ i < j
                   /\ foods[response.result[i]].calories_per_100g = 0
                   /\ CategoryRank(foods[response.result[i]].category)
                          = CategoryRank(foods[response.result[j]].category))
                  => foods[response.result[j]].calories_per_100g = 0
    /\ (/\ response.op = "food_detail"
        /\ response.status = "success"
        /\ foods[response.args[1]].calories_per_100g = 0)
       => response.result = <<0>>

\* C26 witness: Rasam was stored with 0 calories and the list of ten has it
\* after Sambhar and Upma, the last of the South Indian foods, and Water at the
\* end.
C26_Witness ==
    /\ response.op = "recommendations"
    /\ response.status = "success"
    /\ foods[10].calories_per_100g = 0
    /\ Len(response.result) >= 4
    /\ SubSeq(response.result, 1, 3) = <<9, 1, 10>>
    /\ response.result[Len(response.result)] = 8

\* The density shown for a food without calories is 0.
C26_DensityWitness ==
    /\ response = Found("food_detail", "success", <<10>>, <<0>>)
    /\ foods[10].calories_per_100g = 0

----------------------------------------------------------------------------
(* Properties of the serving units *)

\* The rules in their order: the keywords of a name rule or the category of a
\* category rule, and the result.
ServingRules ==
    <<[words |-> PieceItemsWords, category |-> "",
       result |-> ServingUnit("piece", 30, <<10, 20, 30, 40, 50, 60>>)],
      [words |-> CupGrainWords, category |-> "",
       result |-> ServingUnit("cup", 150, <<5, 10, 15, 20>>)],
      [words |-> CupCurryWords, category |-> "",
       result |-> ServingUnit("cup", 200, <<5, 10, 15, 20>>)],
      [words |-> PieceBreadWords, category |-> "",
       result |-> ServingUnit("piece", 40, <<10, 20, 30, 40, 50, 60>>)],
      [words |-> PieceSweetsWords, category |-> "",
       result |-> ServingUnit("piece", 25, <<10, 20, 30, 40, 50, 60>>)],
      [words |-> PieceSnacksWords, category |-> "",
       result |-> ServingUnit("piece", 20, <<10, 20, 30, 40, 50, 100>>)],
      [words |-> CupBeveragesWords, category |-> "",
       result |-> ServingUnit("cup", 150, <<10, 15, 20, 25, 30>>)],
      [words |-> {}, category |-> "Vegetables",
       result |-> ServingUnit("cup", 150, <<5, 10, 15, 20>>)],
      [words |-> {}, category |-> "Fruits",
       result |-> ServingUnit("piece", 100, <<5, 10, 15, 20, 30>>)]>>

\* The rules that apply to a food.
RulesOf(food) ==
    {k \in DOMAIN ServingRules :
        \/ \E word \in ServingRules[k].words : Contains(LowerName(food.name), word)
        \/ food.category = ServingRules[k].category}

\* C27: get_serving_units returns the result of the first rule, in the order
\* piece-items, cup-grain, cup-curry, piece-bread, piece-sweets, piece-snacks,
\* cup-beverages, Vegetables, Fruits, that applies to the lowercased name or
\* the category, so a keyword overrides the category rules; a food to which no
\* rule applies gets grams, 1 gram per unit and 50..250.
C27_FirstRuleDecides ==
    response.op = "food_to_dict" =>
        LET food  == foods[response.food_id]
            rules == RulesOf(food)
        IN  IF rules = {}
            THEN response.serving_units =
                     ServingUnit("grams", 1, <<500, 1000, 1500, 2000, 2500>>)
            ELSE response.serving_units =
                     ServingRules[CHOOSE k \in rules : \A j \in rules : k <= j].result

\* C27 witness: 'Dal Rice' of category Vegetables matches cup-grain, cup-curry
\* and the Vegetables rule and gets the cup of 150 g of the grain rule.
C27_Witness ==
    /\ response.op = "food_to_dict"
    /\ foods[response.food_id] =
           NamedFood(<<"D", "a", "l", " ", "R", "i", "c", "e">>, "Vegetables")
    /\ RulesOf(foods[response.food_id]) = {2, 3, 8}
    /\ response.serving_units = ServingUnit("cup", 150, <<5, 10, 15, 20>>)

\* 'Fruit Juice' of category Fruits gets the cup of the beverages, not the
\* piece of the fruits.
C27_OverrideWitness ==
    /\ response.op = "food_to_dict"
    /\ foods[response.food_id].category = "Fruits"
    /\ RulesOf(foods[response.food_id]) = {7, 9}
    /\ response.serving_units.unit = "cup"

\* 'Boiled Egg' of category South Indian matches no rule and gets grams.
C27_DefaultWitness ==
    /\ response.op = "food_to_dict"
    /\ RulesOf(foods[response.food_id]) = {}
    /\ response.serving_units.unit = "grams"

----------------------------------------------------------------------------
(* Properties of deleting a food while meals are logged *)

\* C28: in every reachable state, under every interleaving of log_meal (food
\* looked up, then log inserted) with admin_delete_food (logs counted, then food
\* deleted), the food_id of each FoodLog is the id of a Food row that exists.
C28_LogsReferToFoods ==
    \A l \in DOMAIN food_logs : food_logs[l].food_id \in DOMAIN foods

----------------------------------------------------------------------------
(* Properties of editing a food that has logs *)

\* C29: an admin edit_food leaves every FoodLog (so the consumed fields of the
\* logs of the edited food) and every DailySummary as they were; an
\* edit_meal_log that succeeds afterwards leaves the log with consumed fields
\* derived from the food's values of that moment, and the summaries of the
\* log's date equal to the sums over the logs of that date.
C29_EditFoodKeepsSnapshots ==
    [][/\ \A u \in DOMAIN users, f \in FoodIds, form \in FoodForms :
             edit_food(u, f, form) =>
                 /\ food_logs' = food_logs
                 /\ daily_summaries' = daily_summaries
       /\ \A l \in DOMAIN food_logs, form \in EditForms :
             (/\ edit_meal_log(2, l, form.quantity_grams, form.meal_type)
              /\ response'.status = "success") =>
                 LET log  == food_logs'[l]
                     food == foods[log.food_id]
                     d    == log.date_logged
                 IN  /\ log.quantity_grams = form.quantity_grams
                     /\ log.calories_consumed =
                            Scaled(food.calories_per_100g, form.quantity_grams)
                     /\ log.protein_consumed =
                            Scaled(food.protein_per_100g, form.quantity_grams)
                     /\ log.carbs_consumed =
                            Scaled(food.carbs_per_100g, form.quantity_grams)
                     /\ log.fat_consumed =
                            Scaled(food.fat_per_100g, form.quantity_grams)
                     /\ SummariesOf(daily_summaries', 2, d) # {}
                     /\ \A i \in SummariesOf(daily_summaries', 2, d) :
                            TotalsMatch(daily_summaries', i, food_logs',
                                        LogsOf(food_logs', 2, d))]_vars

\* C29 witness: food 1 was edited while two logs referred to it, and log 1 was
\* edited afterwards: log 1 carries the nutrients of the new values, log 2
\* still those of the values it was logged with, and the summary of the date
\* is the sum of the two.
C29_Witness ==
    /\ response = Response("edit_meal_log", "success")
    /\ 1 \in DOMAIN foods
    /\ DOMAIN food_logs = {1, 2}
    /\ \A l \in DOMAIN food_logs : food_logs[l].food_id = 1
    /\ food_logs[1].calories_consumed =
           Scaled(foods[1].calories_per_100g, food_logs[1].quantity_grams)
    /\ food_logs[2].calories_consumed =
           Scaled(SeedFoods[1].calories_per_100g, food_logs[2].quantity_grams)
    /\ food_logs[2].calories_consumed #
           Scaled(foods[1].calories_per_100g, food_logs[2].quantity_grams)
    /\ \E i \in SummariesOf(daily_summaries, 2, 1) :
           daily_summaries[i].total_calories =
               food_logs[1].calories_consumed + food_logs[2].calories_consumed

\* C29 witness of the first part: food 1 has just been edited and its log
\* still carries the nutrients of the seeded values.
C29_StaleWitness ==
    /\ response = Response("edit_food", "success")
    /\ foods[1] # SeedFoods[1]
    /\ \E l \in DOMAIN food_logs :
           /\ food_logs[l].food_id = 1
           /\ food_logs[l].calories_consumed =
                  Scaled(SeedFoods[1].calories_per_100g, food_logs[l].quantity_grams)
           /\ food_logs[l].calories_consumed #
                  Scaled(foods[1].calories_per_100g, food_logs[l].quantity_grams)

----------------------------------------------------------------------------
(* Properties of the ownership of logs *)

\* What a log request of user u naming log l may change: nothing when l is not
\* a log of u; otherwise log l alone, which keeps its user, food and date, and
\* the summaries of u on the date of l alone.
OwnLogFrame(u, l) ==
    IF l \notin DOMAIN food_logs \/ food_logs[l].user_id # u
    THEN /\ food_logs' = food_logs
         /\ daily_summaries' = daily_summaries
    ELSE /\ DOMAIN food_logs' \subseteq DOMAIN food_logs
         /\ \A k \in DOMAIN food_logs \ {l} :
                k \in DOMAIN food_logs' /\ food_logs'[k] = food_logs[k]
         /\ l \in DOMAIN food_logs' =>
                /\ food_logs'[l].user_id = food_logs[l].user_id
                /\ food_logs'[l].food_id = food_logs[l].food_id
                /\ food_logs'[l].date_logged = food_logs[l].date_logged
         /\ \A i \in DOMAIN daily_summaries \cup DOMAIN daily_summaries' :
                (i[1] # u \/ i[2] # food_logs[l].date_logged) =>
                    /\ i \in DOMAIN daily_summaries
                    /\ i \in DOMAIN daily_summaries'
                    /\ daily_summaries'[i] = daily_summaries[i]

\* C30: edit_meal_log and delete_meal_log act only on a log of the requesting
\* user and never change a log's user, food or date: a request naming another
\* user's log id changes no log and no summary, and a request of user A changes
\* no FoodLog and no DailySummary of another user and no summary of a date
\* other than the date of the log it names.
C30_OwnLogsOnly ==
    [][/\ \A u \in DOMAIN users, l \in 1..MaxLogs, q \in Quantities :
             (/\ response'.op = "edit_meal_log"
              /\ edit_meal_log(u, l, q, "Breakfast")) =>
                 OwnLogFrame(u, l)
       /\ \A u \in DOMAIN users, l \in 1..MaxLogs :
             (/\ response'.op = "delete_meal_log"
              /\ delete_meal_log(u, l)) => OwnLogFrame(u, l)]_vars

\* C30 witness: every log id is in use, two users own logs, and an edit was
\* answered with not found: it named a log of the other user.
C30_Witness ==
    /\ response = Response("edit_meal_log", "not_found")
    /\ DOMAIN food_logs = 1..MaxLogs
    /\ \E k, l \in DOMAIN food_logs : food_logs[k].user_id # food_logs[l].user_id

\* C30 witness of the other case: a user's delete succeeded while another
\* user has a log and a summary with its totals, and a summary of another date
\* is there.
C30_DeleteWitness ==
    /\ response = Response("delete_meal_log", "success")
    /\ \E l \in DOMAIN food_logs :
           \E i \in SummariesOf(daily_summaries, food_logs[l].user_id,
                                 food_logs[l].date_logged) :
               /\ daily_summaries[i].total_calories = food_logs[l].calories_consumed
               /\ \E j \in DOMAIN daily_summaries :
                      j[1] # i[1] /\ j[2] # i[2]
                      /\ daily_summaries[j].meals_logged = 0

====
